---- MODULE Spec2Model ----
(***************************************************************************)
(* State-machine model of the expense tracker's Mapping Store:             *)
(*   - the field-mapping store (DEFAULT_MAPPINGS, loadFieldMappings,       *)
(*     saveFieldMappings, getDefaultMapping, createFieldMapping) and the   *)
(*     FieldMappingManager dialog that edits it;                           *)
(*   - the keyword-rule store (loadUserMappings, saveUserMappings,         *)
(*     initializeUserMappings, ...) and the MappingManager dialog.         *)
(*                                                                         *)
(* A JavaScript object is a function from its own keys to values, so a     *)
(* missing key and a key holding undefined are different things, and       *)
(* {...a, ...b} is b @@ a.  A localStorage entry is a record that says     *)
(* what JSON.parse makes of the stored text.                               *)
(***************************************************************************)
EXTENDS Integers, Sequences, FiniteSets, TLC

VARIABLES
    lsFM,            \* localStorage['expense-tracker-field-mappings']
    lsDef,           \* localStorage['expense-tracker-default-field-mappings']
    seed,            \* heap contents of the module-level DEFAULT_MAPPINGS array
    boot,            \* clock value at which the module was evaluated (page load)
    now,             \* last value the clock returned
    mgrOpen,         \* FieldMappingManager: isOpen
    mgr,             \* FieldMappingManager: mappings (entries [ref, val])
    fieldMappings,   \* FileUpload: fieldMappings
    selectedMapping, \* FileUpload: selectedMapping
    loaded,          \* the page has been loaded (the components are mounted)
    nOps,            \* number of add/edit operations made so far (bounded)
    lsUser,          \* localStorage['expense-tracker-user-mappings']
    mmOpen,          \* MappingManager: isOpen
    mmRules,         \* MappingManager: userMappings
    mmDirty,         \* MappingManager: hasUnsavedChanges
    wrote,           \* the last operation wrote or removed the user-rule key
    notified,        \* the last operation dispatched 'categoryMappingsUpdated'
    seedCount,       \* history: how often SUGGESTED_MAPPINGS was copied into the store
    fromEmpty,       \* history: the run began with no stored rules and had no reset
    nCat,            \* number of rule-store operations made so far (bounded)
    lastDesc,        \* the description of the last categorizeTransaction call
    lastCat,         \* the category the last categorizeTransaction call returned
    transactions,    \* App: transactions
    lsTx,            \* the text under 'expense-tracker-transactions' (localStorage)
                     \* and 'expense-tracker-session-transactions' (sessionStorage)
    salaries,        \* localStorage['expense-tracker-salaries'] (SalaryManager: salaries)
    file,            \* the file handed to the parser last
    parserMapping,   \* the field mapping handed to the parser last
    result,          \* what the parser returned last
    parsedData,      \* FileUpload: parsedData
    showParseResults, \* FileUpload: showParseResults
    editingEntries,  \* FileUpload: editingEntries
    error,           \* FileUpload: error
    dropzone,        \* whether the closure of FileUpload's onDrop is followed
    dropKeys,        \* the keys of App's transactions in the render whose
                     \* handlers onDrop calls
    nParse,          \* number of parser calls made so far
    nUp,             \* number of drops and field changes made so far (bounded)
    lsCred,          \* localStorage['google-sheets-credentials']
    tokenClient,     \* googleSheets.ts: the API client has been initialised
    lastCred,        \* what the last getGoogleCredentials call returned
    lastInit         \* what the last initializeGoogleSheetsAPI call returned

fmVars == <<lsFM, lsDef, seed, boot, now, mgrOpen, mgr, fieldMappings,
            selectedMapping, loaded, nOps>>
catVars == <<lsUser, mmOpen, mmRules, mmDirty, wrote, notified, seedCount,
             fromEmpty, nCat>>
upVars == <<file, parserMapping, result, parsedData, showParseResults,
            editingEntries, error, dropzone, dropKeys, nParse, nUp>>
credVars == <<lsCred, tokenClient, lastCred, lastInit>>
appVars == <<lastDesc, lastCat, transactions, lsTx, salaries, upVars, credVars>>
vars == <<fmVars, catVars, appVars>>
\* what a handler of the transaction collection leaves alone
txFrame == <<lsFM, lsDef, seed, boot, mgrOpen, mgr, fieldMappings, selectedMapping,
             loaded, nOps, lsUser, mmOpen, mmRules, mmDirty, seedCount, fromEmpty,
             nCat, lastDesc, lastCat, upVars, credVars>>

\* ------------------------------------------------------------------ bounds
MaxOps == 2
MaxClock == 1
MaxCatOps == 3
MaxTx == 2
MaxUpOps == 3
MaxRows == 2
MaxCredDays == 2
MaxCredMs == 2

\* ------------------------------------------------------- JavaScript values
Undefined == "<undefined>"

Get(o, k) == IF k \in DOMAIN o THEN o[k] ELSE Undefined

\* a string is truthy unless empty; undefined is falsy
Truthy(v) == v # Undefined /\ v # ""

\* {...a, ...b}
Spread(a, b) == b @@ a

\* o[k] is undefined (isDefault, the one boolean field, always holds a boolean)
HoldsUndefined(o, k) == k # "isDefault" /\ o[k] = Undefined

\* what JSON.parse(JSON.stringify(o)) keeps of an object: keys holding
\* undefined are dropped
JsonObject(o) == [k \in {x \in DOMAIN o : ~HoldsUndefined(o, x)} |-> o[k]]

JsonArray(s) == [i \in DOMAIN s |-> JsonObject(s[i])]

\* new Date(t).toISOString()
ISO(t) == "T" \o ToString(t)

RECURSIVE TrimLeft(_)
TrimLeft(s) ==
    IF Len(s) > 0 /\ SubSeq(s, 1, 1) = " " THEN TrimLeft(SubSeq(s, 2, Len(s))) ELSE s

RECURSIVE TrimRight(_)
TrimRight(s) ==
    IF Len(s) > 0 /\ SubSeq(s, Len(s), Len(s)) = " "
    THEN TrimRight(SubSeq(s, 1, Len(s) - 1)) ELSE s

\* String.prototype.trim
Trim(s) == TrimRight(TrimLeft(s))

\* ---------------------------------------------------------- stored entries
\* kind: "missing" (getItem gives null), "garbage" (JSON.parse throws),
\* "null", "num", "str", "arr", "obj" (what JSON.parse returns)
Stored(kind, arr, obj, str) == [kind |-> kind, arr |-> arr, obj |-> obj, str |-> str]
NoObj == [k \in {} |-> <<>>]
Missing == Stored("missing", <<>>, NoObj, "")
Garbage == Stored("garbage", <<>>, NoObj, "")
JsonNull == Stored("null", <<>>, NoObj, "")
JsonNum == Stored("num", <<>>, NoObj, "")
JsonStr(s) == Stored("str", <<>>, NoObj, s)
JsonArr(a) == Stored("arr", a, NoObj, "")
JsonObj(o) == Stored("obj", <<>>, o, "")

\* ------------------------------------------------------ the built-in seed
BuiltinIds ==
    <<"hdfc-default", "icici-default", "sbi-default", "axis-default", "generic-default">>

DEFAULT_MAPPINGS(t) == <<
    [id |-> "hdfc-default", bankName |-> "HDFC Bank", starterWord |-> "Date",
     dateColumn |-> "Date", descriptionColumn |-> "Narration",
     withdrawalColumn |-> "Withdrawal Amt.", depositColumn |-> "Deposit Amt.",
     isDefault |-> TRUE, createdAt |-> ISO(t)],
    [id |-> "icici-default", bankName |-> "ICICI Bank", starterWord |-> "Transaction",
     dateColumn |-> "Transaction Date", descriptionColumn |-> "Transaction Remarks",
     withdrawalColumn |-> "Withdrawal Amount (INR )",
     depositColumn |-> "Deposit Amount (INR )",
     isDefault |-> TRUE, createdAt |-> ISO(t)],
    [id |-> "sbi-default", bankName |-> "State Bank of India", starterWord |-> "Txn",
     dateColumn |-> "Txn Date", descriptionColumn |-> "Description",
     withdrawalColumn |-> "Debit", depositColumn |-> "Credit",
     isDefault |-> TRUE, createdAt |-> ISO(t)],
    [id |-> "axis-default", bankName |-> "Axis Bank", starterWord |-> "Tran",
     dateColumn |-> "Tran Date", descriptionColumn |-> "Particulars",
     withdrawalColumn |-> "Debit", depositColumn |-> "Credit",
     isDefault |-> TRUE, createdAt |-> ISO(t)],
    [id |-> "generic-default", bankName |-> "Generic Format", starterWord |-> "Date",
     dateColumn |-> "Date", descriptionColumn |-> "Description",
     amountColumn |-> "Amount", typeColumn |-> "Type",
     isDefault |-> TRUE, createdAt |-> ISO(t)] >>

\* mapping.isDefault as a condition
IsDefault(m) == "isDefault" \in DOMAIN m /\ m["isDefault"] = TRUE

\* Array.prototype.find by id: the index of the first match, 0 when none
FindIndex(list, id) ==
    IF \E i \in DOMAIN list : Get(list[i], "id") = id
    THEN CHOOSE i \in DOMAIN list :
            /\ Get(list[i], "id") = id
            /\ \A j \in DOMAIN list : Get(list[j], "id") = id => i <= j
    ELSE 0

\* the characters of a string, each as the object view of a one-character string
RECURSIVE Chars(_)
Chars(s) ==
    IF Len(s) = 0 THEN <<>>
    ELSE <<("0" :> SubSeq(s, 1, 1))>> \o Chars(SubSeq(s, 2, Len(s)))

\* --------------------------------------------------------- loadFieldMappings
\* modifiedDefaults[mapping.id] for a parsed value that is not null
ModifiedFor(st, id) ==
    IF st.kind = "obj" /\ id \in DOMAIN st.obj THEN st.obj[id] ELSE NoObj

\* some statement inside the try block throws
LoadThrows(fm, def) ==
    \/ fm.kind = "garbage"                   \* JSON.parse(saved)
    \/ def.kind = "garbage"                  \* JSON.parse(savedDefaults)
    \/ def.kind = "null"                     \* null[mapping.id]
    \/ fm.kind \in {"null", "num", "obj"}    \* ...customMappings: not iterable

\* [aliased, list]: aliased says the returned array is DEFAULT_MAPPINGS itself
loadFieldMappings(fm, def, sd) ==
    IF LoadThrows(fm, def)
    THEN [aliased |-> TRUE, list |-> sd]
    ELSE LET customMappings ==
                 CASE fm.kind = "missing" -> <<>>
                   [] fm.kind = "str" -> Chars(fm.str)
                   [] OTHER -> fm.arr
             defaultMappings ==
                 [i \in DOMAIN sd |-> Spread(sd[i], ModifiedFor(def, sd[i]["id"]))]
         IN [aliased |-> FALSE, list |-> defaultMappings \o customMappings]

\* --------------------------------------------------------- saveFieldMappings
\* a changes object that skips a cleared field, as
\* "if (mapping[key] && mapping[key] !== original[key])" would
ChangesSkipCleared(mapping, original) ==
    [k \in {x \in DOMAIN mapping :
                Get(mapping, x) # Get(original, x) /\ mapping[x] # ""} |-> mapping[k]]

\* the changes object computed for one built-in mapping
Changes(mapping, original) ==
    [k \in {x \in DOMAIN mapping : Get(mapping, x) # Get(original, x)} |-> mapping[k]]

\* defaultMappings without the "Object.keys(changes).length > 0" test
RECURSIVE DefaultDiffsUnchecked(_, _)
DefaultDiffsUnchecked(mappings, sd) ==
    IF mappings = <<>> THEN NoObj
    ELSE LET m == mappings[Len(mappings)]
             rest == DefaultDiffsUnchecked(SubSeq(mappings, 1, Len(mappings) - 1), sd)
             i == FindIndex(sd, Get(m, "id"))
         IN IF IsDefault(m) /\ i # 0
            THEN (m["id"] :> JsonObject(Changes(m, sd[i]))) @@ rest
            ELSE rest

\* the mappings of the list that enter defaultMappings, in list order
RECURSIVE DefaultDiffs(_, _)
DefaultDiffs(mappings, sd) ==
    IF mappings = <<>> THEN NoObj
    ELSE LET m == mappings[Len(mappings)]
             rest == DefaultDiffs(SubSeq(mappings, 1, Len(mappings) - 1), sd)
             i == FindIndex(sd, Get(m, "id"))
         IN IF IsDefault(m) /\ i # 0 /\ DOMAIN Changes(m, sd[i]) # {}
            THEN (m["id"] :> JsonObject(Changes(m, sd[i]))) @@ rest
            ELSE rest

NotDefault(m) == ~IsDefault(m)

\* a save that pushes every mapping, built-in or not, to customMappings
saveFieldMappingsPushAll(mappings, sd) ==
    [def |-> JsonObj(DefaultDiffs(mappings, sd)),
     fm |-> JsonArr(JsonArray(mappings))]

\* the two entries saveFieldMappings writes
saveFieldMappings(mappings, sd) ==
    [def |-> JsonObj(DefaultDiffs(mappings, sd)),
     fm |-> JsonArr(JsonArray(SelectSeq(mappings, NotDefault)))]

\* a fallback taken from the seed instead of the loaded list
getDefaultMappingFromSeed(fm, def, sd) == sd[1]

\* ---------------------------------------------------------- getDefaultMapping
getDefaultMapping(fm, def, sd) ==
    LET mappings == loadFieldMappings(fm, def, sd).list
        i == FindIndex(mappings, "hdfc-default")
    IN IF i # 0 THEN mappings[i]
       ELSE IF Len(mappings) > 0 THEN mappings[1] ELSE ("undefined" :> TRUE)

\* --------------------------------------------------------- createFieldMapping
createFieldMapping(t, bankName, starterWord, dateColumn, descriptionColumn, options) ==
    [id |-> "custom-" \o ToString(t),
     bankName |-> bankName,
     starterWord |-> starterWord,
     dateColumn |-> dateColumn,
     descriptionColumn |-> descriptionColumn,
     amountColumn |-> Get(options, "amountColumn"),
     withdrawalColumn |-> Get(options, "withdrawalColumn"),
     depositColumn |-> Get(options, "depositColumn"),
     typeColumn |-> Get(options, "typeColumn"),
     isDefault |-> FALSE,
     createdAt |-> ISO(t)]

\* ------------------------------------------------------ FieldMappingManager
\* An entry of the manager's list is [ref, val]: ref = i > 0 says the element
\* is the i-th object of DEFAULT_MAPPINGS itself (the catch branch of
\* loadFieldMappings returns that array), ref = 0 an object of its own.
Entries(loadedList) ==
    [i \in DOMAIN loadedList.list |->
        IF loadedList.aliased THEN [ref |-> i, val |-> NoObj]
        ELSE [ref |-> 0, val |-> loadedList.list[i]]]

Val(e, sd) == IF e.ref > 0 THEN sd[e.ref] ELSE e.val

Vals(entries, sd) == [i \in DOMAIN entries |-> Val(entries[i], sd)]

\* an edit that assigns mapping[field] = value on the objects of the list
handleEditMappingInPlace(entries, sd, id, field, value) ==
    [mappings |->
        [i \in DOMAIN entries |->
            IF entries[i].ref = 0 /\ Get(entries[i].val, "id") = id
            THEN [ref |-> 0, val |-> Spread(entries[i].val, field :> value)]
            ELSE entries[i]],
     seed |->
        [i \in DOMAIN sd |->
            IF Get(sd[i], "id") = id /\ \E j \in DOMAIN entries : entries[j].ref = i
            THEN Spread(sd[i], field :> value)
            ELSE sd[i]]]

\* prev.map(mapping => mapping.id === id ? {...mapping, [field]: value} : mapping);
\* [mappings, seed]: the new list and the contents of DEFAULT_MAPPINGS afterwards
handleEditMapping(entries, sd, id, field, value) ==
    [mappings |->
        [i \in DOMAIN entries |->
            IF Get(Val(entries[i], sd), "id") = id
            THEN [ref |-> 0, val |-> Spread(Val(entries[i], sd), field :> value)]
            ELSE entries[i]],
     seed |-> sd]

\* x.trim() || undefined
TrimOrUndefined(x) == IF Trim(x) = "" THEN Undefined ELSE Trim(x)

\* the options object handleAddMapping passes to createFieldMapping
AddOptions(form) ==
    [amountColumn |->
        IF form.useAmountColumn THEN TrimOrUndefined(form.amountColumn) ELSE Undefined,
     withdrawalColumn |->
        IF ~form.useAmountColumn THEN TrimOrUndefined(form.withdrawalColumn) ELSE Undefined,
     depositColumn |->
        IF ~form.useAmountColumn THEN TrimOrUndefined(form.depositColumn) ELSE Undefined,
     typeColumn |-> TrimOrUndefined(form.typeColumn)]

\* the early return of handleAddMapping
AddRejected(form) ==
    \/ Trim(form.bankName) = ""
    \/ Trim(form.starterWord) = ""
    \/ Trim(form.dateColumn) = ""
    \/ Trim(form.descriptionColumn) = ""

handleAddMapping(entries, form, t) ==
    IF AddRejected(form) THEN entries
    ELSE Append(entries,
            [ref |-> 0,
             val |-> createFieldMapping(t, Trim(form.bankName), Trim(form.starterWord),
                        Trim(form.dateColumn), Trim(form.descriptionColumn),
                        AddOptions(form))])

\* prev.filter(mapping => mapping.id !== id)
handleDeleteMapping(entries, sd, id) ==
    LET Keep(e) == Get(Val(e, sd), "id") # id IN SelectSeq(entries, Keep)

\* ------------------------------------------------------------- input sets
RequiredFields == {"bankName", "starterWord", "dateColumn", "descriptionColumn"}
OptionalFields == {"amountColumn", "withdrawalColumn", "depositColumn", "typeColumn"}
EditableFields == RequiredFields \cup OptionalFields
EditValues == {"", "X"}

Forms ==
    [bankName : {" ", "My Bank "}, starterWord : {"Date"}, dateColumn : {"Date"},
     descriptionColumn : {"Details"}, amountColumn : {"", "Amount"},
     withdrawalColumn : {"", "Debit"}, depositColumn : {"", "Credit"},
     typeColumn : {""}, useAmountColumn : BOOLEAN]

\* the clock never goes back; two readings may give the same millisecond
ClockReadings == {t \in {now, now + 1} : t <= MaxClock}

\* ------------------------------------------------------ keyword rule store
\* A rule set is a JavaScript object used as an ordered map: a sequence of
\* <<keyword, category>> pairs in the order Object.entries gives, keys unique.
SUGGESTED_MAPPINGS == <<
    <<"zomato", "Food & Dining">>, <<"swiggy", "Food & Dining">>, <<"dominos", "Food & Dining">>,
    <<"kfc", "Food & Dining">>, <<"mcdonalds", "Food & Dining">>, <<"restaurant", "Food & Dining">>,
    <<"cafe", "Food & Dining">>, <<"starbucks", "Food & Dining">>, <<"food", "Food & Dining">>,
    <<"dining", "Food & Dining">>, <<"amazon", "Shopping">>, <<"flipkart", "Shopping">>,
    <<"myntra", "Shopping">>, <<"ajio", "Shopping">>, <<"nykaa", "Shopping">>,
    <<"savana", "Shopping">>, <<"reliance", "Shopping">>, <<"shopping", "Shopping">>,
    <<"mall", "Shopping">>, <<"big basket", "Groceries">>, <<"grofers", "Groceries">>,
    <<"blinkit", "Groceries">>, <<"zepto", "Groceries">>, <<"uber", "Transportation">>,
    <<"ola", "Transportation">>, <<"rapido", "Transportation">>, <<"metro", "Transportation">>,
    <<"petrol", "Transportation">>, <<"fuel", "Transportation">>, <<"parking", "Transportation">>,
    <<"taxi", "Transportation">>, <<"bus", "Transportation">>, <<"netflix", "Entertainment">>,
    <<"amazon prime", "Entertainment">>, <<"hotstar", "Entertainment">>, <<"spotify", "Entertainment">>,
    <<"youtube", "Entertainment">>, <<"movie", "Entertainment">>, <<"cinema", "Entertainment">>,
    <<"bookmyshow", "Entertainment">>, <<"game", "Entertainment">>, <<"electricity", "Bills & Utilities">>,
    <<"gas", "Bills & Utilities">>, <<"water", "Bills & Utilities">>, <<"internet", "Bills & Utilities">>,
    <<"broadband", "Bills & Utilities">>, <<"mobile", "Bills & Utilities">>, <<"airtel", "Bills & Utilities">>,
    <<"jio", "Bills & Utilities">>, <<"bsnl", "Bills & Utilities">>, <<"bill", "Bills & Utilities">>,
    <<"hospital", "Healthcare">>, <<"pharmacy", "Healthcare">>, <<"medical", "Healthcare">>,
    <<"doctor", "Healthcare">>, <<"medicine", "Healthcare">>, <<"clinic", "Healthcare">>,
    <<"salary", "Salary">>, <<"bonus", "Bonus">>, <<"dividend", "Investment Returns">>,
    <<"interest", "Investment Returns">>, <<"refund", "Refunds">>, <<"cashback", "Cashback">>,
    <<"atm", "Banking">>, <<"bank", "Banking">>, <<"transfer", "Transfers">>,
    <<"upi", "UPI/Digital Payments">>, <<"paytm", "UPI/Digital Payments">>, <<"phonepe", "UPI/Digital Payments">>,
    <<"gpay", "UPI/Digital Payments">>, <<"googlepay", "UPI/Digital Payments">> >>

\* the lower-case letter of each upper-case letter
LowerOf ==
    [A |-> "a", B |-> "b", C |-> "c", D |-> "d", E |-> "e", F |-> "f", G |->
     "g", H |-> "h", I |-> "i", J |-> "j", K |-> "k", L |-> "l", M |-> "m",
     N |-> "n", O |-> "o", P |-> "p", Q |-> "q", R |-> "r", S |-> "s", T |->
     "t", U |-> "u", V |-> "v", W |-> "w", X |-> "x", Y |-> "y", Z |-> "z"]

LowerChar(c) == IF c \in DOMAIN LowerOf THEN LowerOf[c] ELSE c

\* String.prototype.toLowerCase
RECURSIVE ToLowerCase(_)
ToLowerCase(s) ==
    IF Len(s) = 0 THEN ""
    ELSE LowerChar(SubSeq(s, 1, 1)) \o ToLowerCase(SubSeq(s, 2, Len(s)))

\* Object.keys(rules)
Keys(rules) == [i \in DOMAIN rules |-> rules[i][1]]

HasKey(rules, k) == \E i \in DOMAIN rules : rules[i][1] = k

\* Own keys of an object are enumerated with the array indices first (canonical
\* decimal numbers below 2^32 - 1, in ascending numeric order), then the other
\* keys in insertion order.
Digits == "0123456789"
IsDigit(c) == \E i \in 1..10 : SubSeq(Digits, i, i) = c
DigitValue(c) == (CHOOSE i \in 1..10 : SubSeq(Digits, i, i) = c) - 1

RECURSIVE ToNat(_)
ToNat(s) ==
    IF Len(s) = 0 THEN 0
    ELSE 10 * ToNat(SubSeq(s, 1, Len(s) - 1)) + DigitValue(SubSeq(s, Len(s), Len(s)))

\* the value of a decimal string of at most ten digits, as <<high part, low five digits>>
IndexValue(k) ==
    IF Len(k) > 5
    THEN <<ToNat(SubSeq(k, 1, Len(k) - 5)), ToNat(SubSeq(k, Len(k) - 4, Len(k)))>>
    ELSE <<0, ToNat(k)>>

PairLess(a, b) == a[1] < b[1] \/ (a[1] = b[1] /\ a[2] < b[2])

IsArrayIndex(k) ==
    /\ Len(k) \in 1..10
    /\ \A i \in 1..Len(k) : IsDigit(SubSeq(k, i, i))
    /\ (Len(k) = 1 \/ SubSeq(k, 1, 1) # "0")
    /\ PairLess(IndexValue(k), <<42949, 67295>>)

\* rules[k] = c: an existing key keeps its place; a new key that is an array
\* index goes among the array indices, any other new key goes last
SetRule(rules, k, c) ==
    IF HasKey(rules, k)
    THEN [i \in DOMAIN rules |-> IF rules[i][1] = k THEN <<k, c>> ELSE rules[i]]
    ELSE IF IsArrayIndex(k)
    THEN LET n == Cardinality({i \in DOMAIN rules :
                                  /\ IsArrayIndex(rules[i][1])
                                  /\ PairLess(IndexValue(rules[i][1]), IndexValue(k))})
         IN SubSeq(rules, 1, n) \o << <<k, c>> >> \o SubSeq(rules, n + 1, Len(rules))
    ELSE Append(rules, <<k, c>>)

\* delete rules[k]
DeleteRule(rules, k) == LET Other(r) == r[1] # k IN SelectSeq(rules, Other)

UserStored(kind, rules) == [kind |-> kind, rules |-> rules]
UserMissing == UserStored("missing", <<>>)
UserGarbage == UserStored("garbage", <<>>)
UserRules(rules) == UserStored("obj", rules)

\* the result of a rule-store operation: the rule set it returns (if any), the
\* stored entry afterwards, whether it wrote or removed the key, whether it
\* dispatched 'categoryMappingsUpdated', whether it copied SUGGESTED_MAPPINGS
Result(rules, store, w, n, s) ==
    [rules |-> rules, store |-> store, wrote |-> w, notified |-> n, seeded |-> s]

loadUserMappings(st) ==
    CASE st.kind = "missing" -> Result(<<>>, st, FALSE, FALSE, FALSE)
      [] st.kind = "garbage" -> Result(<<>>, UserMissing, TRUE, FALSE, FALSE)
      [] OTHER -> Result(st.rules, st, FALSE, FALSE, FALSE)

\* a writer that stores the rule set without dispatching the event
saveUserMappingsSilent(mappings) ==
    Result(mappings, UserRules(mappings), TRUE, FALSE, FALSE)

saveUserMappings(mappings) ==
    Result(mappings, UserRules(mappings), TRUE, TRUE, FALSE)

\* a reader that falls back to the template only when the key is absent
getActiveMappingsIfAbsent(st) ==
    IF st.kind = "missing"
    THEN Result(SUGGESTED_MAPPINGS, st, FALSE, FALSE, FALSE)
    ELSE loadUserMappings(st)

\* a reader that merges the stored rules into the template instead of
\* replacing it
getActiveMappingsMerged(st) ==
    LET l == loadUserMappings(st)
        Absent(r) == ~HasKey(l.rules, r[1])
    IN Result(SelectSeq(SUGGESTED_MAPPINGS, Absent) \o l.rules,
              l.store, l.wrote, FALSE, FALSE)

getActiveMappings(st) ==
    LET l == loadUserMappings(st)
    IN IF Len(Keys(l.rules)) = 0
       THEN Result(SUGGESTED_MAPPINGS, l.store, l.wrote, FALSE, FALSE)
       ELSE l

addOrUpdateMapping(st, keyword, category) ==
    saveUserMappings(SetRule(loadUserMappings(st).rules,
                             Trim(ToLowerCase(keyword)), Trim(category)))

deleteMapping(st, keyword) ==
    saveUserMappings(DeleteRule(loadUserMappings(st).rules, Trim(ToLowerCase(keyword))))

\* an initializer without the emptiness test
initializeUserMappingsAlways(st) ==
    [saveUserMappings(SUGGESTED_MAPPINGS) EXCEPT !.seeded = TRUE]

\* an initializer that seeds only when the key is absent from storage
initializeUserMappingsIfAbsent(st) ==
    LET l == loadUserMappings(st)
    IN IF l.store.kind = "missing"
       THEN [saveUserMappings(SUGGESTED_MAPPINGS) EXCEPT !.seeded = TRUE]
       ELSE l

initializeUserMappings(st) ==
    LET l == loadUserMappings(st)
    IN IF Len(Keys(l.rules)) = 0
       THEN [saveUserMappings(SUGGESTED_MAPPINGS) EXCEPT !.seeded = TRUE]
       ELSE l

\* a reset that dispatches the event and leaves the stored entry alone
resetAllMappingsKeepStored(st) == Result(<<>>, st, FALSE, TRUE, FALSE)

resetAllMappings(st) == Result(<<>>, UserMissing, TRUE, TRUE, FALSE)

\* MappingManager.loadMappings: initializeUserMappings(); getActiveMappings()
loadMappings(st) ==
    LET i == initializeUserMappings(st)
        g == getActiveMappings(i.store)
    IN Result(g.rules, g.store, i.wrote \/ g.wrote, i.notified, i.seeded)

\* String.prototype.includes
Includes(s, k) == \E i \in 0..(Len(s) - Len(k)) : SubSeq(s, i + 1, i + Len(k)) = k

\* keywords.some(keyword => lowerDesc.includes(keyword))
SomeIncluded(keywords, lowerDesc) ==
    \E i \in DOMAIN keywords : Includes(lowerDesc, keywords[i])

isCreditTransaction(description) ==
    SomeIncluded(<<"salary", "sal", "wage", "pay", "deposit", "credit", "credited",
                   "interest", "dividend", "bonus", "transfer in", "received",
                   "incoming", "refund", "cashback", "reward">>,
                 ToLowerCase(description))

isSalaryTransaction(description) ==
    SomeIncluded(<<"salary", "sal", "wage", "payroll", "monthly pay">>,
                 ToLowerCase(description))

isBonusTransaction(description) ==
    SomeIncluded(<<"bonus", "incentive", "commission", "reward">>,
                 ToLowerCase(description))

isInvestmentReturn(description) ==
    SomeIncluded(<<"dividend", "interest", "investment", "mutual fund", "sip">>,
                 ToLowerCase(description))

isRefundTransaction(description) ==
    SomeIncluded(<<"refund", "return", "reversal", "chargeback">>,
                 ToLowerCase(description))

isCashbackTransaction(description) ==
    SomeIncluded(<<"cashback", "cash back", "reward", "points">>,
                 ToLowerCase(description))

\* the fallback patterns: each regular expression is an alternation of literal
\* words with the i flag
patterns == <<
    [pattern |-> <<"food", "restaurant", "cafe", "dining", "meal">>,
     category |-> "Food & Dining"],
    [pattern |-> <<"shop", "store", "mall", "purchase", "buy">>,
     category |-> "Shopping"],
    [pattern |-> <<"fuel", "petrol", "gas", "transport", "taxi", "uber", "ola">>,
     category |-> "Transportation"],
    [pattern |-> <<"medical", "health", "doctor", "pharmacy", "hospital">>,
     category |-> "Healthcare"],
    [pattern |-> <<"bill", "utility", "electric", "water", "internet", "mobile">>,
     category |-> "Bills & Utilities"],
    [pattern |-> <<"entertainment", "movie", "game", "music", "netflix">>,
     category |-> "Entertainment"],
    [pattern |-> <<"grocery", "vegetables", "fruits", "supermarket">>,
     category |-> "Groceries"] >>

\* a pattern test without the i flag
TestCaseSensitive(pattern, description) == SomeIncluded(pattern, description)

\* pattern.test(description) for an alternation of literals with the i flag
Test(pattern, description) == SomeIncluded(pattern, ToLowerCase(description))

\* the least element of a non-empty set of positions
First(positions) == CHOOSE i \in positions : \A j \in positions : i <= j

\* a credit branch that tries the bonus family before the salary family
CreditCategoryBonusFirst(description) ==
    IF isBonusTransaction(description) THEN "Bonus"
    ELSE IF isSalaryTransaction(description) THEN "Salary"
    ELSE IF isInvestmentReturn(description) THEN "Investment Returns"
    ELSE IF isRefundTransaction(description) THEN "Refunds"
    ELSE IF isCashbackTransaction(description) THEN "Cashback"
    ELSE "Credits"

\* the credit branch of categorizeTransaction
CreditCategory(description) ==
    IF isSalaryTransaction(description) THEN "Salary"
    ELSE IF isBonusTransaction(description) THEN "Bonus"
    ELSE IF isInvestmentReturn(description) THEN "Investment Returns"
    ELSE IF isRefundTransaction(description) THEN "Refunds"
    ELSE IF isCashbackTransaction(description) THEN "Cashback"
    ELSE "Credits"

\* a categorizer that compares the keywords with the description as typed
CategorizeCaseSensitive(mappings, description) ==
    LET lowerDescription == Trim(description)
        hits == {i \in DOMAIN mappings :
                    Includes(lowerDescription, ToLowerCase(mappings[i][1]))}
        tested == {i \in DOMAIN patterns : Test(patterns[i].pattern, description)}
    IN IF hits # {} THEN mappings[First(hits)][2]
       ELSE IF isCreditTransaction(description) THEN CreditCategory(description)
       ELSE IF tested # {} THEN patterns[First(tested)].category
       ELSE "Miscellaneous"

\* the category categorizeTransaction returns for the rule set getActiveMappings gave
Categorize(mappings, description) ==
    LET lowerDescription == Trim(ToLowerCase(description))
        hits == {i \in DOMAIN mappings :
                    Includes(lowerDescription, ToLowerCase(mappings[i][1]))}
        tested == {i \in DOMAIN patterns : Test(patterns[i].pattern, description)}
    IN IF hits # {} THEN mappings[First(hits)][2]
       ELSE IF isCreditTransaction(description) THEN CreditCategory(description)
       ELSE IF tested # {} THEN patterns[First(tested)].category
       ELSE "Miscellaneous"

\* categorizeTransaction: the category, and what the call did to the store
categorizeTransaction(st, description) ==
    LET g == getActiveMappings(st)
    IN [category |-> Categorize(g.rules, description),
        store |-> g.store, wrote |-> g.wrote, notified |-> g.notified]

DescriptionInputs ==
    {"ZOMATO ORDER #123", "Amazon Prime", "Gas Station", "Gas Refund",
     "food and fuel", "reward points", "cash back received", "NEFT received",
     "Salary Bonus", "mykey thing", "xyz"}

KeywordInputs == {"Zomato ", "mykey", "123"}
CategoryInputs == {"Shopping"}
RuleSetInputs == {<<>>, << <<"mykey", "Shopping">> >>}

\* ------------------------------------------------------- transactions
\* A JavaScript number: an integer value (fractions are not modelled) or NaN;
\* JSON.stringify writes NaN as null.
Num(v) == [t |-> "number", v |-> v]
NaN == [t |-> "NaN", v |-> 0]
NullNumber == [t |-> "null", v |-> 0]

\* the longest prefix of decimal digits
RECURSIVE DigitPrefix(_)
DigitPrefix(s) ==
    IF Len(s) > 0 /\ IsDigit(SubSeq(s, 1, 1))
    THEN SubSeq(s, 1, 1) \o DigitPrefix(SubSeq(s, 2, Len(s)))
    ELSE ""

\* parseFloat: leading blanks, an optional sign, then the digits; NaN without digits
parseFloat(str) ==
    LET s == IF str = Undefined THEN "" ELSE TrimLeft(str)
        signed == Len(s) > 0 /\ SubSeq(s, 1, 1) \in {"-", "+"}
        digits == DigitPrefix(IF signed THEN SubSeq(s, 2, Len(s)) ELSE s)
    IN IF digits = "" THEN NaN
       ELSE IF signed /\ SubSeq(s, 1, 1) = "-" THEN Num(0 - ToNat(digits))
       ELSE Num(ToNat(digits))

\* n || 0
OrZero(n) == IF n = NaN \/ n = Num(0) THEN Num(0) ELSE n

Transaction(id, date, description, amount, type, category, isManual, source) ==
    [id |-> id, date |-> date, description |-> description, amount |-> amount,
     type |-> type, category |-> category, isManual |-> isManual, source |-> source]

\* JSON.parse(JSON.stringify(transactions))
JsonTransactions(list) ==
    [i \in DOMAIN list |->
        IF list[i].amount = NaN THEN [list[i] EXCEPT !.amount = NullNumber] ELSE list[i]]

StoredTransactions(list) == [kind |-> "arr", arr |-> list]
NoTransactions == [kind |-> "missing", arr |-> <<>>]

\* App's load effect: the stored list if there is one
loadTransactions(st) == IF st.kind = "arr" THEN st.arr ELSE <<>>

\* App's save effect: an empty collection is not written
saveTransactions(list, st) ==
    IF Len(list) = 0 THEN st ELSE StoredTransactions(JsonTransactions(list))

\* TransactionForm.handleSubmit: the record handed to onAddTransaction
FormRejected(formData) == ~Truthy(formData.description) \/ ~Truthy(formData.amount)

\* App.handleAddTransaction
handleAddTransaction(list, formData, t, r) ==
    <<Transaction("manual-" \o ToString(t) \o "-" \o ToString(r), formData.date,
                  formData.description, parseFloat(formData.amount), formData.type,
                  formData.category, TRUE, "manual")>> \o list

\* SalaryManager.handleAddSalary: the entry it stores and hands to onSalaryAdded
SalaryRejected(newSalary) ==
    ~Truthy(newSalary.amount) \/ ~Truthy(Trim(newSalary.description))

SalaryEntry(newSalary, t) ==
    [id |-> "salary-" \o ToString(t), amount |-> parseFloat(newSalary.amount),
     date |-> newSalary.date, description |-> Trim(newSalary.description)]

\* App.handleAddSalary
handleAddSalary(list, salaryData, t) ==
    <<Transaction("salary-manual-" \o ToString(t), salaryData.date,
                  salaryData.description, salaryData.amount, "credit", "Salary",
                  TRUE, "manual")>> \o list

\* App.handleUpdateTransaction
handleUpdateTransaction(list, id, updatedData) ==
    [i \in DOMAIN list |->
        IF list[i].id = id THEN Spread(list[i], updatedData) ELSE list[i]]

\* App.handleDeleteTransaction
handleDeleteTransaction(list, id) ==
    LET Other(x) == x.id # id IN SelectSeq(list, Other)

\* loadTransactionsFromGoogleSheets: one transaction per row of the sheet
loadTransactionsFromGoogleSheets(year, month, rows) ==
    [index \in DOMAIN rows |->
        LET row == rows[index]
        IN Transaction("sheets-" \o year \o "-" \o month \o "-" \o ToString(index - 1),
                       IF Truthy(row[1]) THEN row[1] ELSE "",
                       IF Truthy(row[2]) THEN row[2] ELSE "",
                       OrZero(parseFloat(row[3])),
                       IF row[4] # Undefined /\ ToLowerCase(row[4]) = "credit"
                       THEN "credit" ELSE "debit",
                       IF Truthy(row[5]) THEN row[5] ELSE "Miscellaneous",
                       TRUE, "manual")]

\* the text of an <input type="number">
AmountInputs == {"", "5", "-5"}
TypeInputs == {"debit", "credit"}
FormInputs ==
    [date : {"2024-01-01"}, description : {"", "Lunch"}, amount : AmountInputs,
     type : TypeInputs, category : {"Miscellaneous"}]
SalaryInputs ==
    [date : {"2024-01-01"}, description : {"Monthly Salary"}, amount : AmountInputs]
RandomInputs == {0, 1}

\* the rows A2:E of a month's sheet
RowInputs ==
    {<<>>,
     << <<"2024-01-01", "Rent", "-5", "Credit", "Bills & Utilities">> >>,
     << <<"2024-01-01", "Rent", "5", "debit", Undefined>>,
        <<"2024-01-02", "Tea", "abc", Undefined, Undefined>> >>}

\* ------------------------------------------------------- statement parser
\* utils/excelParser is not among the sources at hand: parseExcelCSV and the
\* header/row locator are modelled from sections 4.3 and 4.4 of the
\* specification.  A file is [type, rows]: the detected type and the raw rows,
\* each row a sequence of cell texts.

\* a cell of a row, blank when the row is shorter (column 0: not resolved)
Cell(row, i) == IF i \in DOMAIN row THEN row[i] ELSE ""

\* case-insensitive substring
ContainsIgnoreCase(text, word) == Includes(ToLowerCase(text), ToLowerCase(word))

\* 4.3 step 1: the first row with a cell that contains starterWord, 0 when none
FindHeaderRow(rawRows, starterWord) ==
    LET hits == {r \in DOMAIN rawRows :
                    \E i \in DOMAIN rawRows[r] :
                       ContainsIgnoreCase(rawRows[r][i], starterWord)}
    IN IF starterWord = Undefined \/ hits = {} THEN 0 ELSE First(hits)

\* 4.3 step 3: the first header cell that contains the configured name or is
\* contained in it, 0 when there is none or no name is configured
FindColumn(header, name) ==
    LET hits == {i \in DOMAIN header :
                    \/ ContainsIgnoreCase(header[i], name)
                    \/ ContainsIgnoreCase(name, header[i])}
    IN IF ~Truthy(name) \/ hits = {} THEN 0 ELSE First(hits)

ColumnFields ==
    {"dateColumn", "descriptionColumn", "amountColumn", "withdrawalColumn",
     "depositColumn", "typeColumn"}

\* 4.3: the header row, the column of every field, and the file-level failure
\* ("" when the header and the required columns resolve)
Locate(rawRows, fieldMapping) ==
    LET h == FindHeaderRow(rawRows, Get(fieldMapping, "starterWord"))
        header == IF h = 0 THEN <<>> ELSE rawRows[h]
        col == [f \in ColumnFields |-> FindColumn(header, Get(fieldMapping, f))]
    IN [headerRow |-> h, header |-> header, col |-> col,
        error |->
            IF h = 0 THEN "HeaderNotFound"
            ELSE IF col["dateColumn"] = 0 THEN "ColumnNotFound: date"
            ELSE IF col["descriptionColumn"] = 0 THEN "ColumnNotFound: description"
            ELSE IF /\ col["amountColumn"] = 0
                    /\ (col["withdrawalColumn"] = 0 \/ col["depositColumn"] = 0)
                 THEN "ColumnNotFound: amount"
            ELSE ""]

\* the single amount column is read when it resolved, the withdrawal and
\* deposit columns otherwise
AmountColumnMode(loc) == loc.col["amountColumn"] # 0

AllDigits(s) == Len(s) > 0 /\ \A i \in 1..Len(s) : IsDigit(SubSeq(s, i, i))

\* 4.4 step 2: a date cell reads YYYY-MM-DD or DD/MM/YYYY; the date is kept as
\* YYYY-MM-DD, and "" says the cell is not a date
parseDate(cell) ==
    IF /\ Len(cell) = 10
       /\ AllDigits(SubSeq(cell, 1, 4)) /\ SubSeq(cell, 5, 5) = "-"
       /\ AllDigits(SubSeq(cell, 6, 7)) /\ SubSeq(cell, 8, 8) = "-"
       /\ AllDigits(SubSeq(cell, 9, 10))
    THEN cell
    ELSE IF /\ Len(cell) = 10
            /\ AllDigits(SubSeq(cell, 1, 2)) /\ SubSeq(cell, 3, 3) = "/"
            /\ AllDigits(SubSeq(cell, 4, 5)) /\ SubSeq(cell, 6, 6) = "/"
            /\ AllDigits(SubSeq(cell, 7, 10))
    THEN SubSeq(cell, 7, 10) \o "-" \o SubSeq(cell, 4, 5) \o "-" \o SubSeq(cell, 1, 2)
    ELSE ""

IsNumber(n) == n.t = "number"

\* Math.abs
\* an amount stored with its sign
AbsSigned(n) == n

Abs(n) == IF IsNumber(n) /\ n.v < 0 THEN Num(0 - n.v) ELSE n

\* 4.4 step 4: an explicit type cell, debit unless it reads as credit
TypeOfCell(cell) ==
    IF ContainsIgnoreCase(cell, "credit") \/ ToLowerCase(Trim(cell)) = "cr"
    THEN "credit" ELSE "debit"

\* a cell that counts as populated as soon as it is not empty
PopulatedIfNonEmpty(cell) == Trim(cell) # ""

\* 4.4 step 4: a withdrawal or deposit cell holds a non-empty, non-zero value
Populated(cell) == Trim(cell) # "" /\ parseFloat(cell) # Num(0)

\* ParsedTransaction of a row that failed: nothing of the row is extracted
FailedRow(row, message) ==
    [date |-> "", description |-> "", amount |-> Num(0), type |-> "debit",
     originalRow |-> row, success |-> FALSE, error |-> message]

\* ParsedTransaction of a row that succeeded: no error field
ParsedRow(row, date, description, amount, type) ==
    [date |-> date, description |-> description, amount |-> amount, type |-> type,
     originalRow |-> row, success |-> TRUE, error |-> Undefined]

\* 4.4 steps 2-5 for one row
ExtractRow(row, loc) ==
    LET date == parseDate(Trim(Cell(row, loc.col["dateColumn"])))
        description == Trim(Cell(row, loc.col["descriptionColumn"]))
        value == parseFloat(Cell(row, loc.col["amountColumn"]))
        withdrawal == Cell(row, loc.col["withdrawalColumn"])
        deposit == Cell(row, loc.col["depositColumn"])
        cell == IF Populated(withdrawal) THEN withdrawal ELSE deposit
    IN IF date = "" THEN FailedRow(row, "invalid date")
       ELSE IF description = "" THEN FailedRow(row, "empty description")
       ELSE IF AmountColumnMode(loc)
       THEN IF ~IsNumber(value) THEN FailedRow(row, "invalid amount")
            ELSE IF loc.col["typeColumn"] # 0
            THEN ParsedRow(row, date, description, Abs(value),
                           TypeOfCell(Cell(row, loc.col["typeColumn"])))
            ELSE ParsedRow(row, date, description, Abs(value),
                           IF value.v < 0 THEN "debit" ELSE "credit")
       ELSE IF Populated(withdrawal) /\ Populated(deposit)
       THEN FailedRow(row, "both withdrawal and deposit are populated")
       ELSE IF ~Populated(withdrawal) /\ ~Populated(deposit)
       THEN FailedRow(row, "neither withdrawal nor deposit is populated")
       ELSE IF ~IsNumber(parseFloat(cell)) THEN FailedRow(row, "invalid amount")
       ELSE ParsedRow(row, date, description, parseFloat(cell),
                      IF Populated(withdrawal) THEN "debit" ELSE "credit")

\* 4.4 step 1: a row whose cells are all blank
IsBlankRow(row) == \A i \in DOMAIN row : Trim(row[i]) = ""

\* the rows strictly after the header row that are not entirely empty
DataRows(rawRows, headerRow) ==
    LET NotBlank(row) == ~IsBlankRow(row)
    IN SelectSeq(SubSeq(rawRows, headerRow + 1, Len(rawRows)), NotBlank)

\* the positions of the entries of parsedData that succeeded, in order
Successes(entries) ==
    LET Succeeded(k) == entries[k].success
    IN SelectSeq([k \in DOMAIN entries |-> k], Succeeded)

\* a parser that gives up at the first row that fails
parseExcelCSVStopAtFailure(f, fieldMapping, st, fresh) ==
    LET loc == Locate(f.rows, fieldMapping)
        rows == DataRows(f.rows, loc.headerRow)
        every == [k \in DOMAIN rows |-> ExtractRow(rows[k], loc)]
        bad == {k \in DOMAIN every : ~every[k].success}
        last == IF bad = {} THEN Len(every)
                ELSE CHOOSE k \in bad : \A j \in bad : k <= j
        entries == SubSeq(every, 1, last)
        done == Successes(entries)
        active == getActiveMappings(st)
    IN IF loc.error # ""
       THEN [ok |-> FALSE, error |-> loc.error, transactions |-> <<>>,
             parsedData |-> <<>>, headers |-> <<>>, store |-> st]
       ELSE [ok |-> TRUE, error |-> "",
             transactions |->
                 [n \in DOMAIN done |->
                     LET e == entries[done[n]]
                     IN Spread(Transaction(f.type \o "-" \o ToString(fresh) \o "-"
                                               \o ToString(done[n]),
                                           e.date, e.description, e.amount, e.type,
                                           Categorize(active.rules, e.description),
                                           FALSE, f.type),
                               [originalDescription |-> e.description])],
             parsedData |-> entries,
             headers |-> loc.header,
             store |-> IF Len(done) > 0 THEN active.store ELSE st]

\* parseExcelCSV(file, fieldMapping): ok says no file-level failure was thrown;
\* fresh is the number of this parse, from which the fresh ids are built; st is
\* the stored rule set the Categorizer reads, store what it leaves behind
parseExcelCSV(f, fieldMapping, st, fresh) ==
    LET loc == Locate(f.rows, fieldMapping)
        rows == DataRows(f.rows, loc.headerRow)
        entries == [k \in DOMAIN rows |-> ExtractRow(rows[k], loc)]
        done == Successes(entries)
        active == getActiveMappings(st)
    IN IF loc.error # ""
       THEN [ok |-> FALSE, error |-> loc.error, transactions |-> <<>>,
             parsedData |-> <<>>, headers |-> <<>>, store |-> st]
       ELSE [ok |-> TRUE, error |-> "",
             transactions |->
                 [n \in DOMAIN done |->
                     LET e == entries[done[n]]
                     IN Spread(Transaction(f.type \o "-" \o ToString(fresh) \o "-"
                                               \o ToString(done[n]),
                                           e.date, e.description, e.amount, e.type,
                                           Categorize(active.rules, e.description),
                                           FALSE, f.type),
                               [originalDescription |-> e.description])],
             parsedData |-> entries,
             headers |-> loc.header,
             store |-> IF Len(done) > 0 THEN active.store ELSE st]

\* ------------------------------------------------------------ file import
Null == "<null>"

\* a number inside a template literal
NumberToString(n) ==
    CASE n.t = "NaN" -> "NaN"
      [] n.t = "null" -> "null"
      [] OTHER -> ToString(n.v)

\* `${t.description}-${t.amount}-${t.date}`
TransactionKey(t) == t.description \o "-" \o NumberToString(t.amount) \o "-" \o t.date

\* the Set of keys handleTransactionsLoaded builds from the transactions of
\* its render
ExistingTransactionKeys(list) == {TransactionKey(list[i]) : i \in DOMAIN list}

\* App.handleTransactionsLoaded.  The function belongs to one render of App:
\* existingTransactionKeys are the keys of the collection of that render;
\* `prev` is the collection the state updater is applied to.
handleTransactionsLoaded(existingTransactionKeys, prev, newTransactions) ==
    LET Unique(t) == TransactionKey(t) \notin existingTransactionKeys
    IN prev \o SelectSeq(newTransactions, Unique)

\* App.handleSalaryEntriesFound, of the same render as the
\* handleTransactionsLoaded it calls
handleSalaryEntriesFound(seen, prev, entries, t) ==
    LET salaryTransactions ==
            [index \in DOMAIN entries |->
                Spread(Transaction("salary-detected-" \o ToString(t) \o "-"
                                       \o ToString(index - 1),
                                   entries[index].date, entries[index].description,
                                   entries[index].amount, "credit", "Salary",
                                   FALSE, "excel"),
                       [originalDescription |-> entries[index].description])]
    IN IF Len(salaryTransactions) > 0
       THEN handleTransactionsLoaded(seen, prev, salaryTransactions)
       ELSE prev

\* FileUpload's own isSalaryTransaction
FileUploadIsSalaryTransaction(description) ==
    SomeIncluded(<<"salary", "sal", "wage", "pay", "payroll">>,
                 ToLowerCase(description))

\* processFile: the salary entries found among the parsed transactions
SalaryEntries(list) ==
    LET IsSalary(t) == t.type = "credit" /\ FileUploadIsSalaryTransaction(t.description)
        found == SelectSeq(list, IsSalary)
    IN [i \in DOMAIN found |->
           [amount |-> found[i].amount, date |-> found[i].date,
            description |-> found[i].description]]

\* processFile: the message shown when the parse threw or gave no transaction
ProcessError(r) ==
    IF ~r.ok THEN (IF r.error # "" THEN r.error ELSE "Failed to process file")
    ELSE IF Len(r.transactions) = 0
    THEN "No valid transactions found in the file. Please check the field mappings and file format."
    ELSE Null

\* parsedData.filter(entry => entry.success)
SuccessEntries(entries) ==
    LET Succeeded(entry) == entry.success IN SelectSeq(entries, Succeeded)

\* handleApplyChanges: the transactions handed to onTransactionsLoaded
handleApplyChanges(entries, rules, t) ==
    LET kept == SuccessEntries(entries)
    IN [n \in DOMAIN kept |->
           Spread(Transaction("excel-edited-" \o ToString(n - 1) \o "-" \o ToString(t),
                              kept[n].date, kept[n].description, kept[n].amount,
                              kept[n].type, Categorize(rules, kept[n].description),
                              FALSE, "excel"),
                  [originalDescription |-> kept[n].description])]

\* the mapping FileUpload's loadMappings selects: the loaded mapping with the
\* id of the selected one, else getDefaultMapping()
ReloadSelected(fm, def, sd, id) ==
    LET mappings == loadFieldMappings(fm, def, sd).list
        i == FindIndex(mappings, id)
    IN IF i # 0 THEN mappings[i] ELSE getDefaultMapping(fm, def, sd)

\* statement files in the layout of the built-in HDFC mapping
HdfcHeader == <<"Date", "Narration", "Withdrawal Amt.", "Deposit Amt.">>

StatementFile(type, rows) == [type |-> type, rows |-> rows]
NoFile == StatementFile("", <<>>)

\* the files dropped on FileUpload: a debit row; a salary credit row; the same
\* row twice; a row with an unreadable date; that row followed by a good one;
\* a sheet without a header row
FileInputs ==
    {StatementFile("csv", <<HdfcHeader, <<"05/01/2024", "Tea", "5", "">> >>),
     StatementFile("csv", <<HdfcHeader, <<"05/01/2024", "Salary", "", "9">> >>),
     StatementFile("csv", <<HdfcHeader, <<"05/01/2024", "Tea", "5", "">>,
                            <<"05/01/2024", "Tea", "5", "">> >>),
     StatementFile("csv", <<HdfcHeader, <<"bad", "Tea", "5", "">> >>),
     StatementFile("excel", <<HdfcHeader, <<"bad", "Tea", "5", "">>,
                              <<"05/01/2024", "Tea", "5", "">> >>),
     StatementFile("csv", << <<"Statement">> >>)}

\* what the user types into the inputs of a parsed row being edited
FieldChangeInputs == {<<"description", "Lunch">>, <<"amount", "-5">>, <<"type", "credit">>}

NoResult ==
    [ok |-> FALSE, error |-> "", transactions |-> <<>>, parsedData |-> <<>>,
     headers |-> <<>>, store |-> UserMissing]

\* ------------------------------------------------------ Google credentials
oneDayInMs == 24 * 60 * 60 * 1000

\* the entry under 'google-sheets-credentials': missing, text JSON.parse
\* rejects, or the object saveGoogleCredentials wrote
CredStored(kind, clientId, apiKey, timestamp) ==
    [kind |-> kind, clientId |-> clientId, apiKey |-> apiKey, timestamp |-> timestamp]
CredMissing == CredStored("missing", "", "", 0)
CredGarbage == CredStored("garbage", "", "", 0)

saveGoogleCredentials(clientId, apiKey, t) == CredStored("obj", clientId, apiKey, t)

\* what getGoogleCredentials returns: null, or the client id and API key
NoCredentials == [null |-> TRUE, clientId |-> "", apiKey |-> ""]
Credentials(clientId, apiKey) == [null |-> FALSE, clientId |-> clientId, apiKey |-> apiKey]

\* a reader that keeps an entry of exactly 24 hours and more for ever
getGoogleCredentialsNoExpiry(st, t) ==
    IF st.kind = "obj"
    THEN [value |-> Credentials(st.clientId, st.apiKey), store |-> st]
    ELSE [value |-> NoCredentials, store |-> st]

\* getGoogleCredentials at clock reading t: the value returned and the entry
\* left in storage
getGoogleCredentials(st, t) ==
    IF st.kind # "obj" THEN [value |-> NoCredentials, store |-> st]
    ELSE IF t - st.timestamp > oneDayInMs
         THEN [value |-> NoCredentials, store |-> CredMissing]
    ELSE [value |-> Credentials(st.clientId, st.apiKey), store |-> st]

clearExpiredCredentials(st, t) ==
    LET g == getGoogleCredentials(st, t)
    IN IF g.value.null THEN CredMissing ELSE g.store

\* what loading the scripts and gapi.client.init can come to
ApiOutcomes == {"ready", "script failed", "init failed"}

\* initializeGoogleSheetsAPI: the value the promise settles with ("rejected"
\* when gapi.client.init fails), the stored entry, and whether the API client
\* is initialised afterwards
initializeGoogleSheetsAPI(st, t, client, outcome) ==
    LET g == getGoogleCredentials(st, t)
    IN IF g.value.null \/ ~Truthy(g.value.clientId) \/ ~Truthy(g.value.apiKey)
       THEN [value |-> "false", store |-> g.store, client |-> client]
       ELSE CASE outcome = "ready" ->
                     [value |-> "true", store |-> g.store, client |-> TRUE]
              [] outcome = "script failed" ->
                     [value |-> "false", store |-> g.store, client |-> client]
              [] OTHER ->
                     [value |-> "rejected", store |-> g.store, client |-> client]

\* the texts of the Client ID and API Key inputs
CredentialInputs == {"", " id "}

\* the clock between two credential operations: the same millisecond, the
\* next one, exactly 24 hours later, 24 hours and a millisecond later
CredClockReadings ==
    {t \in {now, now + 1, now + oneDayInMs, now + oneDayInMs + 1} :
        /\ t \div oneDayInMs <= MaxCredDays
        /\ t % oneDayInMs <= MaxCredMs}

\* ----------------------------------------------------------------- actions
\* what a rule-store operation does to the stored entry and the effect flags
Effect(r) ==
    /\ lsUser' = r.store
    /\ wrote' = r.wrote
    /\ notified' = r.notified
    /\ seedCount' = seedCount + (IF r.seeded THEN 1 ELSE 0)

NoEffect ==
    /\ wrote' = FALSE
    /\ notified' = FALSE
    /\ UNCHANGED <<lsUser, seedCount>>

\* FileUpload on mount: useState(getDefaultMapping()), then the effect's loadMappings
MountSelected(fm, def, sd) ==
    LET mappings == loadFieldMappings(fm, def, sd).list
        initial == getDefaultMapping(fm, def, sd)
        i == FindIndex(mappings, Get(initial, "id"))
    IN IF i # 0 THEN mappings[i] ELSE getDefaultMapping(fm, def, sd)

\* App's transactions in the render whose handlers onDrop closes over after a
\* page load: onDrop (useCallback, dependency selectedMapping) is made anew in
\* the render after the effects, which sees the loaded transactions, unless
\* loadMappings set the very object selectedMapping held (the catch branch of
\* loadFieldMappings returns DEFAULT_MAPPINGS itself): then onDrop stays the
\* one of the first render
MountTransactions(fm, def, tx) ==
    IF LoadThrows(fm, def) THEN <<>> ELSE loadTransactions(tx)

\* The page is (re)loaded: the modules are evaluated again (DEFAULT_MAPPINGS gets
\* a new createdAt), every component state is rebuilt, App's start effect runs
\* initializeUserMappings and FileUpload mounts.
PageLoad ==
    \E t \in ClockReadings :
        /\ now' = t
        /\ boot' = t
        /\ seed' = DEFAULT_MAPPINGS(t)
        /\ mgrOpen' = FALSE
        /\ mgr' = <<>>
        /\ fieldMappings' = loadFieldMappings(lsFM, lsDef, DEFAULT_MAPPINGS(t)).list
        /\ selectedMapping' = MountSelected(lsFM, lsDef, DEFAULT_MAPPINGS(t))
        /\ loaded' = TRUE
        /\ Effect(initializeUserMappings(lsUser))
        /\ mmOpen' = FALSE
        /\ mmRules' = <<>>
        /\ mmDirty' = FALSE
        /\ transactions' = loadTransactions(lsTx)
        /\ parsedData' = <<>>
        /\ showParseResults' = FALSE
        /\ editingEntries' = NoObj
        /\ error' = Null
        /\ dropKeys' = IF dropzone
                       THEN ExistingTransactionKeys(MountTransactions(lsFM, lsDef, lsTx))
                       ELSE {}
        /\ tokenClient' = FALSE
    /\ UNCHANGED <<lsFM, lsDef, nOps, fromEmpty, nCat, lastDesc, lastCat, lsTx,
                   salaries, file, parserMapping, result, dropzone, nParse, nUp, lsCred,
                   lastCred, lastInit>>

\* FieldMappingManager: isOpen becomes true, the effect loads the list
OpenManager ==
    /\ loaded /\ ~mgrOpen /\ ~mmOpen
    /\ mgrOpen' = TRUE
    /\ mgr' = Entries(loadFieldMappings(lsFM, lsDef, seed))
    /\ NoEffect
    /\ UNCHANGED <<lsFM, lsDef, seed, boot, now, fieldMappings, selectedMapping,
                   loaded, nOps, mmOpen, mmRules, mmDirty, fromEmpty, nCat>>
    /\ UNCHANGED appVars

\* the input of a field is shown for the row being edited; the inputs of the
\* optional columns only while the column holds a non-empty value
InputShown(m, field) == field \in RequiredFields \/ Truthy(Get(m, field))

HandleEditMapping ==
    /\ mgrOpen /\ nOps < MaxOps
    /\ \E i \in DOMAIN mgr, field \in EditableFields, value \in EditValues :
          LET m == Val(mgr[i], seed)
              r == handleEditMapping(mgr, seed, Get(m, "id"), field, value)
          IN /\ InputShown(m, field)
             /\ Get(m, field) # value
             /\ mgr' = r.mappings
             /\ seed' = r.seed
    /\ nOps' = nOps + 1
    /\ NoEffect
    /\ UNCHANGED <<lsFM, lsDef, boot, now, mgrOpen, fieldMappings, selectedMapping,
                   loaded, mmOpen, mmRules, mmDirty, fromEmpty, nCat>>
    /\ UNCHANGED appVars

HandleAddMapping ==
    /\ mgrOpen /\ nOps < MaxOps
    /\ \E form \in Forms, t \in ClockReadings :
          /\ mgr' = handleAddMapping(mgr, form, t)
          /\ now' = t
    /\ nOps' = nOps + 1
    /\ NoEffect
    /\ UNCHANGED <<lsFM, lsDef, seed, boot, mgrOpen, fieldMappings, selectedMapping,
                   loaded, mmOpen, mmRules, mmDirty, fromEmpty, nCat>>
    /\ UNCHANGED appVars

\* the delete button is shown for the rows that are not built-in
HandleDeleteMapping ==
    /\ mgrOpen
    /\ \E i \in DOMAIN mgr :
          LET m == Val(mgr[i], seed)
          IN /\ ~IsDefault(m)
             /\ mgr' = handleDeleteMapping(mgr, seed, Get(m, "id"))
    /\ NoEffect
    /\ UNCHANGED <<lsFM, lsDef, seed, boot, now, mgrOpen, fieldMappings,
                   selectedMapping, loaded, nOps, mmOpen, mmRules, mmDirty,
                   fromEmpty, nCat>>
    /\ UNCHANGED appVars

\* FieldMappingManager.handleSave: saveFieldMappings(mappings); onClose()
HandleSave ==
    /\ mgrOpen
    /\ LET w == saveFieldMappings(Vals(mgr, seed), seed)
       IN /\ lsDef' = w.def
          /\ lsFM' = w.fm
    /\ mgrOpen' = FALSE
    /\ NoEffect
    /\ UNCHANGED <<seed, boot, now, mgr, fieldMappings, selectedMapping, loaded,
                   nOps, mmOpen, mmRules, mmDirty, fromEmpty, nCat>>
    /\ UNCHANGED appVars

\* the X and Cancel buttons: onClose()
CloseManager ==
    /\ mgrOpen
    /\ mgrOpen' = FALSE
    /\ NoEffect
    /\ UNCHANGED <<lsFM, lsDef, seed, boot, now, mgr, fieldMappings, selectedMapping,
                   loaded, nOps, mmOpen, mmRules, mmDirty, fromEmpty, nCat>>
    /\ UNCHANGED appVars

\* ------------------------------------------------- rule-store operations
AddOrUpdateMapping ==
    /\ loaded /\ nCat < MaxCatOps
    /\ \E k \in KeywordInputs, c \in CategoryInputs :
          /\ Effect(addOrUpdateMapping(lsUser, k, c))
    /\ nCat' = nCat + 1
    /\ UNCHANGED <<fmVars, mmOpen, mmRules, mmDirty, fromEmpty>>
    /\ UNCHANGED appVars

DeleteMapping ==
    /\ loaded /\ nCat < MaxCatOps
    /\ \E k \in KeywordInputs :
          /\ Effect(deleteMapping(lsUser, k))
    /\ nCat' = nCat + 1
    /\ UNCHANGED <<fmVars, mmOpen, mmRules, mmDirty, fromEmpty>>
    /\ UNCHANGED appVars

SaveUserMappings ==
    /\ loaded /\ nCat < MaxCatOps
    /\ \E m \in RuleSetInputs :
          /\ Effect(saveUserMappings(m))
    /\ nCat' = nCat + 1
    /\ UNCHANGED <<fmVars, mmOpen, mmRules, mmDirty, fromEmpty>>
    /\ UNCHANGED appVars

ResetAllMappings ==
    /\ loaded /\ nCat < MaxCatOps
    /\ Effect(resetAllMappings(lsUser))
    /\ fromEmpty' = FALSE
    /\ nCat' = nCat + 1
    /\ UNCHANGED <<fmVars, mmOpen, mmRules, mmDirty>>
    /\ UNCHANGED appVars

\* MappingManager: isOpen becomes true, the effect runs loadMappings
OpenMappingManager ==
    /\ loaded /\ ~mmOpen /\ ~mgrOpen
    /\ LET r == loadMappings(lsUser)
       IN /\ Effect(r)
          /\ mmRules' = r.rules
    /\ mmOpen' = TRUE
    /\ mmDirty' = FALSE
    /\ UNCHANGED <<fmVars, fromEmpty, nCat>>
    /\ UNCHANGED appVars

\* MappingManager.handleDeleteMapping (confirmed)
MMDeleteMapping ==
    /\ mmOpen /\ nCat < MaxCatOps
    /\ \E i \in DOMAIN mmRules :
          /\ mmRules[i][1] \in {Trim(ToLowerCase(k)) : k \in KeywordInputs}
          /\ mmRules' = DeleteRule(mmRules, mmRules[i][1])
    /\ mmDirty' = TRUE
    /\ nCat' = nCat + 1
    /\ NoEffect
    /\ UNCHANGED <<fmVars, mmOpen, fromEmpty>>
    /\ UNCHANGED appVars

\* MappingManager.handleAddMapping: rejected when a field is blank or the
\* keyword exists
MMAddMapping ==
    /\ mmOpen /\ nCat < MaxCatOps
    /\ \E k \in KeywordInputs, c \in CategoryInputs :
          /\ Trim(k) # "" /\ Trim(c) # ""
          /\ ~HasKey(mmRules, ToLowerCase(Trim(k)))
          /\ mmRules' = SetRule(mmRules, ToLowerCase(Trim(k)), Trim(c))
    /\ mmDirty' = TRUE
    /\ nCat' = nCat + 1
    /\ NoEffect
    /\ UNCHANGED <<fmVars, mmOpen, fromEmpty>>
    /\ UNCHANGED appVars

\* MappingManager.handleSave: saveUserMappings(userMappings), then onClose()
\* after the 500 ms during which every button of the dialog is disabled
MMHandleSave ==
    /\ mmOpen /\ mmDirty
    /\ Effect(saveUserMappings(mmRules))
    /\ mmDirty' = FALSE
    /\ mmOpen' = FALSE
    /\ UNCHANGED <<fmVars, mmRules, fromEmpty, nCat>>
    /\ UNCHANGED appVars

\* MappingManager.handleCancel: with unsaved changes (confirmed) loadMappings()
\* runs again before onClose()
MMHandleCancel ==
    /\ mmOpen
    /\ IF mmDirty
       THEN LET r == loadMappings(lsUser)
            IN /\ Effect(r)
               /\ mmRules' = r.rules
       ELSE NoEffect /\ UNCHANGED mmRules
    /\ mmDirty' = FALSE
    /\ mmOpen' = FALSE
    /\ UNCHANGED <<fmVars, fromEmpty, nCat>>
    /\ UNCHANGED appVars

\* a call of categorizeTransaction (file import, re-categorization)
CategorizeTransaction ==
    /\ \E d \in DescriptionInputs :
          LET r == categorizeTransaction(lsUser, d)
          IN /\ lastDesc' = d
             /\ lastCat' = r.category
             /\ lsUser' = r.store
             /\ wrote' = r.wrote
             /\ notified' = r.notified
    /\ UNCHANGED <<fmVars, mmOpen, mmRules, mmDirty, seedCount, fromEmpty, nCat,
                   transactions, lsTx, salaries, upVars, credVars>>

\* ------------------------------------------------ transaction handlers
\* every handler ends with App's save effect on the new collection

\* TransactionForm.handleSubmit -> App.handleAddTransaction
HandleAddTransaction ==
    /\ loaded /\ Len(transactions) < MaxTx
    /\ \E formData \in FormInputs, t \in ClockReadings, r \in RandomInputs :
          /\ ~FormRejected(formData)
          /\ transactions' = handleAddTransaction(transactions, formData, t, r)
          /\ now' = t
    /\ lsTx' = saveTransactions(transactions', lsTx)
    /\ wrote' = FALSE /\ notified' = FALSE
    /\ UNCHANGED <<txFrame, salaries>>

\* SalaryManager.handleAddSalary -> App.handleAddSalary
HandleAddSalary ==
    /\ loaded /\ Len(transactions) < MaxTx /\ Len(salaries) < MaxTx
    /\ \E newSalary \in SalaryInputs, t1 \in ClockReadings :
          \E t2 \in {t \in {t1, t1 + 1} : t <= MaxClock} :
             LET salary == SalaryEntry(newSalary, t1)
             IN /\ ~SalaryRejected(newSalary)
                /\ salaries' = Append(salaries, salary)
                /\ transactions' = handleAddSalary(transactions, salary, t2)
                /\ now' = t2
    /\ lsTx' = saveTransactions(transactions', lsTx)
    /\ wrote' = FALSE /\ notified' = FALSE
    /\ UNCHANGED txFrame

\* TransactionList: handleEdit, a new text in the amount input, handleSaveEdit
\* -> App.handleUpdateTransaction
HandleUpdateTransaction ==
    /\ loaded
    /\ \E i \in DOMAIN transactions, text \in AmountInputs :
          LET x == transactions[i]
              editingData == [date |-> x.date, description |-> x.description,
                              amount |-> parseFloat(text), type |-> x.type,
                              category |-> x.category]
          IN transactions' = handleUpdateTransaction(transactions, x.id, editingData)
    /\ lsTx' = saveTransactions(transactions', lsTx)
    /\ wrote' = FALSE /\ notified' = FALSE
    /\ UNCHANGED <<txFrame, now, salaries>>

\* App.handleDeleteTransaction
HandleDeleteTransaction ==
    /\ loaded
    /\ \E i \in DOMAIN transactions :
          transactions' = handleDeleteTransaction(transactions, transactions[i].id)
    /\ lsTx' = saveTransactions(transactions', lsTx)
    /\ wrote' = FALSE /\ notified' = FALSE
    /\ UNCHANGED <<txFrame, now, salaries>>

\* App.handleDeleteAllTransactions: the collection and both stored copies
HandleDeleteAllTransactions ==
    /\ loaded /\ Len(transactions) > 0
    /\ transactions' = <<>>
    /\ lsTx' = NoTransactions
    /\ wrote' = FALSE /\ notified' = FALSE
    /\ UNCHANGED <<txFrame, now, salaries>>

\* GoogleSheetsManager.handleLoadTransactions (connected, a month chosen)
\* -> App.handleTransactionsReplaced
HandleLoadTransactions ==
    /\ loaded
    /\ \E rows \in RowInputs :
          transactions' = loadTransactionsFromGoogleSheets("2024", "January", rows)
    /\ lsTx' = saveTransactions(transactions', lsTx)
    /\ wrote' = FALSE /\ notified' = FALSE
    /\ UNCHANGED <<txFrame, now, salaries>>

\* ------------------------------------------------------ FileUpload handlers
\* FileUpload's format select: setSelectedMapping(mapping) for another id, after
\* which the effect (dependency selectedMapping.id) runs loadMappings again;
\* onDrop is made anew in the render that sees the new selectedMapping
SelectMapping ==
    /\ loaded
    /\ \E i \in DOMAIN fieldMappings :
          /\ Get(fieldMappings[i], "id") # Get(selectedMapping, "id")
          /\ selectedMapping' =
                 ReloadSelected(lsFM, lsDef, seed, Get(fieldMappings[i], "id"))
    /\ fieldMappings' = loadFieldMappings(lsFM, lsDef, seed).list
    /\ dropKeys' = ExistingTransactionKeys(transactions)
    /\ NoEffect
    /\ UNCHANGED <<lsFM, lsDef, seed, boot, now, mgrOpen, mgr, loaded, nOps,
                   mmOpen, mmRules, mmDirty, fromEmpty, nCat>>
    /\ UNCHANGED <<lastDesc, lastCat, transactions, lsTx, salaries, credVars>>
    /\ UNCHANGED <<file, parserMapping, result, parsedData, showParseResults,
                   editingEntries, error, dropzone, nParse, nUp>>

\* activeTab leaves 'dashboard' and returns: FileUpload is unmounted and
\* mounted again, its state is rebuilt
RemountFileUpload ==
    /\ loaded
    /\ fieldMappings' = loadFieldMappings(lsFM, lsDef, seed).list
    /\ selectedMapping' = MountSelected(lsFM, lsDef, seed)
    /\ parsedData' = <<>>
    /\ showParseResults' = FALSE
    /\ editingEntries' = NoObj
    /\ error' = Null
    /\ dropKeys' = ExistingTransactionKeys(transactions)
    /\ NoEffect
    /\ UNCHANGED <<lsFM, lsDef, seed, boot, now, mgrOpen, mgr, loaded, nOps,
                   mmOpen, mmRules, mmDirty, fromEmpty, nCat>>
    /\ UNCHANGED <<lastDesc, lastCat, transactions, lsTx, salaries, credVars>>
    /\ UNCHANGED <<file, parserMapping, result, dropzone, nParse, nUp>>

\* a file is dropped: onDrop -> processFile, with the handlers of the App
\* render that onDrop closed over
ProcessFile ==
    /\ loaded /\ nUp < MaxUpOps
    /\ \E f \in FileInputs :
          /\ file' = f
          /\ result' = parseExcelCSV(f, selectedMapping, lsUser, nParse + 1)
    /\ parserMapping' = selectedMapping
    /\ lsUser' = result'.store
    /\ wrote' = (lsUser' # lsUser)
    /\ error' = ProcessError(result')
    /\ parsedData' = IF error' # Null THEN <<>> ELSE result'.parsedData
    /\ showParseResults' = (error' = Null)
    /\ \E t \in ClockReadings :
          LET salaryEntries == SalaryEntries(result'.transactions)
          IN IF error' # Null
             THEN transactions' = transactions /\ now' = now
             ELSE IF Len(salaryEntries) = 0
             THEN /\ transactions' =
                        handleTransactionsLoaded(dropKeys, transactions,
                                                 result'.transactions)
                  /\ now' = now
             ELSE /\ transactions' =
                        handleTransactionsLoaded(
                            dropKeys,
                            handleSalaryEntriesFound(dropKeys, transactions,
                                                     salaryEntries, t),
                            result'.transactions)
                  /\ now' = t
    /\ Len(transactions') <= MaxTx
    /\ lsTx' = saveTransactions(transactions', lsTx)
    /\ editingEntries' = NoObj
    /\ nParse' = nParse + 1
    /\ nUp' = nUp + 1
    /\ notified' = FALSE
    /\ UNCHANGED <<lsFM, lsDef, seed, boot, mgrOpen, mgr, fieldMappings,
                   selectedMapping, loaded, nOps, mmOpen, mmRules, mmDirty,
                   seedCount, fromEmpty, nCat, lastDesc, lastCat, salaries, dropzone,
                   dropKeys, credVars>>

\* the edit button of a parsed row (rendered for the rows that succeeded)
HandleEditEntry ==
    /\ showParseResults
    /\ \E index \in DOMAIN parsedData :
          /\ parsedData[index].success
          /\ index \notin DOMAIN editingEntries
          /\ editingEntries' = (index :> parsedData[index]) @@ editingEntries
    /\ wrote' = FALSE /\ notified' = FALSE
    /\ UNCHANGED <<lsFM, lsDef, seed, boot, now, mgrOpen, mgr, fieldMappings,
                   selectedMapping, loaded, nOps, lsUser, mmOpen, mmRules, mmDirty,
                   seedCount, fromEmpty, nCat, lastDesc, lastCat, transactions, lsTx,
                   salaries, credVars>>
    /\ UNCHANGED <<file, parserMapping, result, parsedData, showParseResults, error,
                   dropKeys, dropzone, nParse, nUp>>

\* an input of a row being edited changes; the amount input hands on
\* parseFloat(e.target.value)
HandleFieldChange ==
    /\ showParseResults /\ nUp < MaxUpOps
    /\ \E index \in DOMAIN editingEntries, c \in FieldChangeInputs :
          LET value == IF c[1] = "amount" THEN parseFloat(c[2]) ELSE c[2]
          IN editingEntries' =
                 [editingEntries EXCEPT ![index] = [@ EXCEPT ![c[1]] = value]]
    /\ nUp' = nUp + 1
    /\ wrote' = FALSE /\ notified' = FALSE
    /\ UNCHANGED <<lsFM, lsDef, seed, boot, now, mgrOpen, mgr, fieldMappings,
                   selectedMapping, loaded, nOps, lsUser, mmOpen, mmRules, mmDirty,
                   seedCount, fromEmpty, nCat, lastDesc, lastCat, transactions, lsTx,
                   salaries, credVars>>
    /\ UNCHANGED <<file, parserMapping, result, parsedData, showParseResults, error,
                   dropKeys, dropzone, nParse>>

HandleSaveEntry ==
    /\ showParseResults
    /\ \E index \in DOMAIN editingEntries :
          /\ parsedData' = [parsedData EXCEPT ![index] = editingEntries[index]]
          /\ editingEntries' =
                 [k \in DOMAIN editingEntries \ {index} |-> editingEntries[k]]
    /\ wrote' = FALSE /\ notified' = FALSE
    /\ UNCHANGED <<lsFM, lsDef, seed, boot, now, mgrOpen, mgr, fieldMappings,
                   selectedMapping, loaded, nOps, lsUser, mmOpen, mmRules, mmDirty,
                   seedCount, fromEmpty, nCat, lastDesc, lastCat, transactions, lsTx,
                   salaries, credVars>>
    /\ UNCHANGED <<file, parserMapping, result, showParseResults, error, dropKeys,
                   dropzone, nParse, nUp>>

HandleCancelEdit ==
    /\ showParseResults
    /\ \E index \in DOMAIN editingEntries :
          editingEntries' =
              [k \in DOMAIN editingEntries \ {index} |-> editingEntries[k]]
    /\ wrote' = FALSE /\ notified' = FALSE
    /\ UNCHANGED <<lsFM, lsDef, seed, boot, now, mgrOpen, mgr, fieldMappings,
                   selectedMapping, loaded, nOps, lsUser, mmOpen, mmRules, mmDirty,
                   seedCount, fromEmpty, nCat, lastDesc, lastCat, transactions, lsTx,
                   salaries, credVars>>
    /\ UNCHANGED <<file, parserMapping, result, parsedData, showParseResults, error,
                   dropKeys, dropzone, nParse, nUp>>

\* the Apply Changes button of the results table, with the handler of the
\* current App render
HandleApplyChanges ==
    /\ showParseResults /\ Len(parsedData) > 0
    /\ \E t \in ClockReadings :
          LET active == getActiveMappings(lsUser)
              updatedTransactions == handleApplyChanges(parsedData, active.rules, t)
              called == Len(updatedTransactions) > 0
          IN /\ transactions' =
                    handleTransactionsLoaded(ExistingTransactionKeys(transactions), transactions,
                                             updatedTransactions)
             /\ now' = IF called THEN t ELSE now
             /\ lsUser' = IF called THEN active.store ELSE lsUser
             /\ wrote' = (called /\ active.store # lsUser)
    /\ Len(transactions') <= MaxTx
    /\ lsTx' = saveTransactions(transactions', lsTx)
    /\ showParseResults' = FALSE
    /\ notified' = FALSE
    /\ UNCHANGED <<lsFM, lsDef, seed, boot, mgrOpen, mgr, fieldMappings,
                   selectedMapping, loaded, nOps, mmOpen, mmRules, mmDirty,
                   seedCount, fromEmpty, nCat, lastDesc, lastCat, salaries, credVars>>
    /\ UNCHANGED <<file, parserMapping, result, parsedData, editingEntries, error,
                   dropKeys, dropzone, nParse, nUp>>

\* the Hide button of the results table
HideParseResults ==
    /\ showParseResults /\ Len(parsedData) > 0
    /\ showParseResults' = FALSE
    /\ wrote' = FALSE /\ notified' = FALSE
    /\ UNCHANGED <<lsFM, lsDef, seed, boot, now, mgrOpen, mgr, fieldMappings,
                   selectedMapping, loaded, nOps, lsUser, mmOpen, mmRules, mmDirty,
                   seedCount, fromEmpty, nCat, lastDesc, lastCat, transactions, lsTx,
                   salaries, credVars>>
    /\ UNCHANGED <<file, parserMapping, result, parsedData, editingEntries, error,
                   dropKeys, dropzone, nParse, nUp>>

\* the parser applied to a file and a field mapping
ParseExcelCSV ==
    /\ result = NoResult
    /\ result' = parseExcelCSV(file, parserMapping, lsUser, nParse + 1)
    /\ nParse' = nParse + 1
    /\ lsUser' = result'.store
    /\ wrote' = (lsUser' # lsUser)
    /\ notified' = FALSE
    /\ UNCHANGED <<fmVars, mmOpen, mmRules, mmDirty, seedCount, fromEmpty, nCat>>
    /\ UNCHANGED <<lastDesc, lastCat, transactions, lsTx, salaries, credVars>>
    /\ UNCHANGED <<file, parserMapping, parsedData, showParseResults, editingEntries,
                   error, dropzone, dropKeys, nUp>>

\* ------------------------------------------------- credential operations
\* GoogleSheetsManager.handleSaveCredentials
HandleSaveCredentials ==
    /\ \E clientId \in CredentialInputs, apiKey \in CredentialInputs,
          t \in CredClockReadings :
          /\ Trim(clientId) # "" /\ Trim(apiKey) # ""
          /\ lsCred' = saveGoogleCredentials(Trim(clientId), Trim(apiKey), t)
          /\ now' = t
    /\ NoEffect
    /\ UNCHANGED <<lsFM, lsDef, seed, boot, mgrOpen, mgr, fieldMappings,
                   selectedMapping, loaded, nOps, mmOpen, mmRules, mmDirty,
                   fromEmpty, nCat>>
    /\ UNCHANGED <<lastDesc, lastCat, transactions, lsTx, salaries, upVars,
                   tokenClient, lastCred, lastInit>>

\* a call of getGoogleCredentials, as its two callers make it
GetGoogleCredentials ==
    /\ \E t \in CredClockReadings :
          LET g == getGoogleCredentials(lsCred, t)
          IN /\ lastCred' = g.value
             /\ lsCred' = g.store
             /\ now' = t
    /\ NoEffect
    /\ UNCHANGED <<lsFM, lsDef, seed, boot, mgrOpen, mgr, fieldMappings,
                   selectedMapping, loaded, nOps, mmOpen, mmRules, mmDirty,
                   fromEmpty, nCat>>
    /\ UNCHANGED <<lastDesc, lastCat, transactions, lsTx, salaries, upVars,
                   tokenClient, lastInit>>

ClearExpiredCredentials ==
    /\ \E t \in CredClockReadings :
          /\ lsCred' = clearExpiredCredentials(lsCred, t)
          /\ now' = t
    /\ NoEffect
    /\ UNCHANGED <<lsFM, lsDef, seed, boot, mgrOpen, mgr, fieldMappings,
                   selectedMapping, loaded, nOps, mmOpen, mmRules, mmDirty,
                   fromEmpty, nCat>>
    /\ UNCHANGED <<lastDesc, lastCat, transactions, lsTx, salaries, upVars,
                   tokenClient, lastCred, lastInit>>

\* a call of initializeGoogleSheetsAPI (GoogleSheetsManager.handleConnect makes
\* it when storage holds an entry)
InitializeGoogleSheetsAPI ==
    /\ \E t \in CredClockReadings, outcome \in ApiOutcomes :
          LET r == initializeGoogleSheetsAPI(lsCred, t, tokenClient, outcome)
          IN /\ lastInit' = r.value
             /\ lsCred' = r.store
             /\ tokenClient' = r.client
             /\ now' = t
    /\ NoEffect
    /\ UNCHANGED <<lsFM, lsDef, seed, boot, mgrOpen, mgr, fieldMappings,
                   selectedMapping, loaded, nOps, mmOpen, mmRules, mmDirty,
                   fromEmpty, nCat>>
    /\ UNCHANGED <<lastDesc, lastCat, transactions, lsTx, salaries, upVars,
                   lastCred>>

\* ---------------------------------------------------------- specifications
InitApp ==
    /\ boot = 0 /\ now = 0
    /\ seed = DEFAULT_MAPPINGS(0)
    /\ mgrOpen = FALSE /\ mgr = <<>>
    /\ fieldMappings = <<>> /\ selectedMapping = NoObj
    /\ loaded = FALSE
    /\ mmOpen = FALSE /\ mmRules = <<>> /\ mmDirty = FALSE
    /\ wrote = FALSE /\ notified = FALSE
    /\ seedCount = 0
    /\ fromEmpty = (lsUser = UserMissing)
    /\ nCat = 0
    /\ lastDesc = "" /\ lastCat = ""
    /\ transactions = <<>>
    /\ lsTx = NoTransactions
    /\ salaries = <<>>
    /\ result = NoResult
    /\ parsedData = <<>> /\ showParseResults = FALSE
    /\ editingEntries = NoObj /\ error = Null
    /\ dropKeys = {}
    /\ nParse = 0
    /\ tokenClient = FALSE
    /\ lastCred = NoCredentials /\ lastInit = Null

\* the specifications of the stores and of the transaction handlers leave
\* the dropzone aside: none of their actions reads dropKeys
InitCommon ==
    /\ InitApp
    /\ file = NoFile /\ parserMapping = NoObj
    /\ lsCred = CredMissing
    /\ dropzone = FALSE
    /\ nOps = 0 /\ nUp = 0

InitDropzone ==
    /\ InitApp
    /\ file = NoFile /\ parserMapping = NoObj
    /\ lsCred = CredMissing
    /\ dropzone = TRUE

\* stored field mappings a browser can hold when the page is opened
SampleCustom ==
    JsonObject(createFieldMapping(0, "Old Bank", "Date", "Date", "Details",
                                  [amountColumn |-> "Amount"]))
SampleDiff == ("hdfc-default" :> [bankName |-> "My HDFC"])

StoredCustomInputs ==
    {Missing, Garbage, JsonNull, JsonNum, JsonStr("ab"), JsonObj(NoObj),
     JsonArr(<<>>), JsonArr(<<SampleCustom>>)}
StoredDefaultInputs ==
    {Missing, Garbage, JsonNull, JsonNum, JsonStr("ab"), JsonArr(<<>>),
     JsonObj(NoObj), JsonObj(SampleDiff)}

\* the field-mapping store and its manager
InitFM ==
    /\ lsFM \in {Missing, Garbage}
    /\ lsDef = Missing
    /\ lsUser = UserMissing
    /\ InitCommon

NextFM ==
    \/ PageLoad
    \/ OpenManager
    \/ HandleEditMapping
    \/ HandleAddMapping
    \/ HandleDeleteMapping
    \/ HandleSave
    \/ CloseManager

SpecFM == InitFM /\ [][NextFM]_vars

\* loadFieldMappings over every kind of stored content
InitLoad ==
    /\ lsFM \in StoredCustomInputs
    /\ lsDef \in StoredDefaultInputs
    /\ lsUser = UserMissing
    /\ InitCommon

NextLoad ==
    \/ PageLoad
    \/ OpenManager
    \/ HandleSave
    \/ CloseManager

SpecLoad == InitLoad /\ [][NextLoad]_vars

\* the keyword-rule store and its manager
InitCat ==
    /\ lsFM = Missing /\ lsDef = Missing
    /\ lsUser \in {UserMissing, UserGarbage, UserRules(<< <<"mykey", "Shopping">> >>)}
    /\ InitCommon

NextCat ==
    \/ PageLoad
    \/ AddOrUpdateMapping
    \/ DeleteMapping
    \/ SaveUserMappings
    \/ ResetAllMappings
    \/ OpenMappingManager
    \/ MMAddMapping
    \/ MMDeleteMapping
    \/ MMHandleSave
    \/ MMHandleCancel

SpecCat == InitCat /\ [][NextCat]_vars

\* categorizeTransaction over stored rule sets, between edits of the rule store
InitCategorize ==
    /\ lsFM = Missing /\ lsDef = Missing
    /\ lsUser \in {UserMissing, UserGarbage, UserRules(SUGGESTED_MAPPINGS),
                    UserRules(<< <<"mykey", "Miscellaneous">> >>)}
    /\ InitCommon

NextCategorize ==
    \/ PageLoad
    \/ AddOrUpdateMapping
    \/ CategorizeTransaction

SpecCategorize == InitCategorize /\ [][NextCategorize]_vars

\* the transaction collection and its handlers
InitTx ==
    /\ lsFM = Missing /\ lsDef = Missing
    /\ lsUser = UserMissing
    /\ InitCommon

NextTx ==
    \/ PageLoad
    \/ HandleAddTransaction
    \/ HandleAddSalary
    \/ HandleUpdateTransaction
    \/ HandleDeleteTransaction
    \/ HandleDeleteAllTransactions
    \/ HandleLoadTransactions

SpecTx == InitTx /\ [][NextTx]_vars

\* the parser over files and field mappings
AmountHeader == <<"Date", "Details", "Amount">>
TypeHeader == <<"Date", "Description", "Amount", "Type">>

\* rows in the three layouts: a good and an unreadable date, a description or
\* none, amount cells that are blank, zero or a number, and the blank row
WdRowInputs ==
    {<<d, n, w, p>> : d \in {"05/01/2024", "bad"}, n \in {"Tea", ""},
                      w \in {"", "0", "500"}, p \in {"", "70"}}
        \cup {<<"", "", "", "">>}
AmountRowInputs ==
    {<<d, n, a>> : d \in {"05/01/2024", "bad"}, n \in {"Pay", ""},
                   a \in {"-5", "0", "5"}}
        \cup {<<"", "", "">>}
TypeRowInputs ==
    {<<"2024-01-05", "Pay", a, ty>> : a \in {"-5", "5"}, ty \in {"CR", "Debit", ""}}

\* the sequences of one to MaxRows rows
RowsOf(S) == UNION {[1..n -> S] : n \in 1..MaxRows}

\* ten data rows of which the fifth has an unreadable date
TenRows ==
    [k \in 1..10 |->
        <<IF k = 5 THEN "n/a" ELSE "05/01/2024", "Tea", "", ToString(k)>>]

ParseFileInputs ==
    {StatementFile("csv", <<HdfcHeader>> \o rows) : rows \in RowsOf(WdRowInputs)}
        \cup {StatementFile("csv", <<AmountHeader>> \o rows) :
                 rows \in RowsOf(AmountRowInputs)}
        \cup {StatementFile("excel", << <<"Statement of account">>, TypeHeader>> \o rows) :
                 rows \in RowsOf(TypeRowInputs)}
        \cup {StatementFile("csv", <<HdfcHeader>> \o TenRows)}

\* the built-in HDFC mapping (withdrawal and deposit columns), the built-in
\* generic mapping (amount and type columns), a custom mapping with an amount
\* column only
ParseMappingInputs ==
    {DEFAULT_MAPPINGS(0)[1], DEFAULT_MAPPINGS(0)[5], SampleCustom}

InitParse ==
    /\ lsFM = Missing /\ lsDef = Missing
    /\ lsUser = UserRules(SUGGESTED_MAPPINGS)
    /\ lsCred = CredMissing
    /\ file \in ParseFileInputs
    /\ parserMapping \in ParseMappingInputs
    /\ dropzone = FALSE
    /\ nOps = 0 /\ nUp = 0
    /\ InitApp

NextParse == ParseExcelCSV

SpecParse == InitParse /\ [][NextParse]_vars

\* file import: FileUpload and the App handlers it calls
InitImport ==
    /\ lsFM = Missing /\ lsDef = Missing
    /\ lsUser = UserMissing
    /\ nOps = 0 /\ nUp = 0
    /\ InitDropzone

NextImport ==
    \/ PageLoad
    \/ ProcessFile
    \/ HandleEditEntry
    \/ HandleFieldChange
    \/ HandleSaveEntry
    \/ HandleCancelEdit
    \/ HandleApplyChanges
    \/ HideParseResults
    \/ RemountFileUpload

SpecImport == InitImport /\ [][NextImport]_vars

\* FileUpload next to the FieldMappingManager: one edit in the manager, one
\* file dropped
InitUpload ==
    /\ lsFM = Missing /\ lsDef = Missing
    /\ lsUser = UserMissing
    /\ nOps = MaxOps - 1 /\ nUp = MaxUpOps - 1
    /\ InitDropzone

NextUpload ==
    \/ PageLoad
    \/ OpenManager
    \/ HandleEditMapping
    \/ HandleSave
    \/ CloseManager
    \/ RemountFileUpload
    \/ ProcessFile

SpecUpload == InitUpload /\ [][NextUpload]_vars

\* the stored Google credentials over time
InitCred ==
    /\ lsFM = Missing /\ lsDef = Missing
    /\ lsUser = UserMissing
    /\ lsCred \in {CredMissing, CredGarbage}
    /\ file = NoFile /\ parserMapping = NoObj
    /\ dropzone = FALSE
    /\ nOps = 0 /\ nUp = 0
    /\ InitApp

NextCred ==
    \/ HandleSaveCredentials
    \/ GetGoogleCredentials
    \/ ClearExpiredCredentials
    \/ InitializeGoogleSheetsAPI

SpecCred == InitCred /\ [][NextCred]_vars

\* ------------------------------------------------------------------ claims
\* what loadFieldMappings() returns in the current state
LoadList == loadFieldMappings(lsFM, lsDef, seed).list

\* the seed as the source text defines it, for the page load of this session
Seed == DEFAULT_MAPPINGS(boot)

IsBuiltinId(id) == \E i \in DOMAIN BuiltinIds : BuiltinIds[i] = id

\* C1: round trip.  When the manager saves its list (the loaded list with fields
\* of built-in mappings changed or cleared), loadFieldMappings() afterwards
\* returns exactly the saved list, every mapping with the values it was saved
\* with; and with the stored diffs discarded it returns every built-in with the
\* values of the seed.
C1_RoundTrip ==
    [][HandleSave =>
          /\ loadFieldMappings(lsFM', lsDef', seed').list = JsonArray(Vals(mgr, seed))
          /\ LET l == loadFieldMappings(lsFM', Missing, seed').list
             IN \A i \in DOMAIN Seed : l[i] = Seed[i]]_vars

\* a built-in mapping was saved with an optional column cleared, and is loaded so
C1_Witness ==
    /\ ~mgrOpen
    /\ lsDef.kind = "obj"
    /\ DOMAIN lsDef.obj = {"hdfc-default"}
    /\ lsDef.obj["hdfc-default"] = [withdrawalColumn |-> ""]
    /\ LoadList[1]["withdrawalColumn"] = ""
    /\ LoadList[1]["depositColumn"] = "Deposit Amt."

\* the stored entries were written by saveFieldMappings
WrittenBySave == lsFM.kind = "arr" /\ lsDef.kind = "obj"

\* the number of mappings of a list that carry the id
Count(list, id) == Cardinality({j \in DOMAIN list : Get(list[j], "id") = id})

\* the list without its k-th element
Without(list, k) == SubSeq(list, 1, k - 1) \o SubSeq(list, k + 1, Len(list))

\* a stored entry that is unparseable, or parseable but of the wrong shape
CorruptCustom(st) == st.kind \in {"garbage", "null", "num", "str", "obj"}
CorruptDefault(st) == st.kind \in {"garbage", "null", "num", "str", "arr"}
Unusable(st, corrupt) == corrupt \/ st.kind = "missing"

\* C2: corrupt storage is treated as absent, key by key.  When the manager has
\* just loaded its list: if one of the two stored entries is unparseable or of
\* the wrong shape, the list is what loadFieldMappings() gives with that entry
\* missing and the other one applied; if both are corrupt or missing, the list
\* is the unmodified built-in set.
C2_CorruptAsAbsent ==
    mgrOpen =>
        LET l == Vals(mgr, seed)
        IN /\ (CorruptCustom(lsFM) /\ ~CorruptDefault(lsDef))
                 => l = loadFieldMappings(Missing, lsDef, seed).list
           /\ (~CorruptCustom(lsFM) /\ CorruptDefault(lsDef))
                 => l = loadFieldMappings(lsFM, Missing, seed).list
           /\ (Unusable(lsFM, CorruptCustom(lsFM)) /\ Unusable(lsDef, CorruptDefault(lsDef)))
                 => l = Seed

\* C3: with the entries saveFieldMappings wrote, loadFieldMappings() returns
\* the five built-ins first, in seed order, each the seed overlaid with its
\* stored diff, then exactly the stored custom mappings in stored order; every
\* built-in id occurs exactly once, also when the saved list lacked a built-in.
C3_BuiltinsFirst ==
    /\ WrittenBySave =>
          LET l == LoadList
          IN /\ Len(l) = Len(Seed) + Len(lsFM.arr)
             /\ \A i \in DOMAIN Seed :
                   /\ l[i]["id"] = BuiltinIds[i]
                   /\ l[i] = Spread(Seed[i], ModifiedFor(lsDef, BuiltinIds[i]))
             /\ SubSeq(l, Len(Seed) + 1, Len(l)) = lsFM.arr
             /\ \A i \in DOMAIN BuiltinIds : Count(l, BuiltinIds[i]) = 1
    /\ mgrOpen =>
          \A k \in DOMAIN mgr :
             LET w == saveFieldMappings(Without(Vals(mgr, seed), k), seed)
                 l == loadFieldMappings(w.fm, w.def, seed).list
             IN \A i \in DOMAIN BuiltinIds : Count(l, BuiltinIds[i]) = 1

\* a stored diff and a stored custom mapping are loaded together
C3_Witness ==
    /\ WrittenBySave
    /\ DOMAIN lsDef.obj # {}
    /\ Len(lsFM.arr) = 1
    /\ Len(LoadList) = 6
    /\ LoadList[6] = lsFM.arr[1]

\* C4: saveFieldMappings(ms) stores, for each built-in of ms, exactly the fields
\* whose value differs from the seed mapping of that id, and no entry for a
\* built-in equal to the seed; it stores the full records of exactly the
\* mappings of ms that are not built-in, in the order of ms.
C4_SaveStoresDiffs ==
    [][HandleSave =>
          LET ms == Vals(mgr, seed)
              Differing(m) ==
                  {k \in DOMAIN m : m[k] # Get(Seed[FindIndex(Seed, m["id"])], k)}
          IN /\ lsDef'.kind = "obj"
             /\ \A i \in DOMAIN ms :
                   IsDefault(ms[i]) =>
                      IF Differing(ms[i]) = {}
                      THEN ms[i]["id"] \notin DOMAIN lsDef'.obj
                      ELSE /\ ms[i]["id"] \in DOMAIN lsDef'.obj
                           /\ DOMAIN lsDef'.obj[ms[i]["id"]] = Differing(ms[i])
                           /\ \A k \in Differing(ms[i]) :
                                 lsDef'.obj[ms[i]["id"]][k] = ms[i][k]
             /\ \A id \in DOMAIN lsDef'.obj :
                   \E i \in DOMAIN ms : IsDefault(ms[i]) /\ ms[i]["id"] = id
             /\ lsFM'.kind = "arr"
             /\ lsFM'.arr = JsonArray(SelectSeq(ms, NotDefault))]_vars

\* one built-in was saved with one field changed, beside a custom mapping
C4_Witness ==
    /\ ~mgrOpen
    /\ WrittenBySave
    /\ lsDef.obj = ("sbi-default" :> [bankName |-> "X"])
    /\ Len(lsFM.arr) = 1
    /\ lsFM.arr[1]["isDefault"] = FALSE

\* C5: the contents of DEFAULT_MAPPINGS never change, and with the stored diffs
\* removed loadFieldMappings() returns every built-in equal, field for field,
\* to the seed.
C5_SeedIntact ==
    /\ seed = Seed
    /\ LET l == loadFieldMappings(lsFM, Missing, seed).list
       IN \A j \in DOMAIN l :
             IsBuiltinId(Get(l[j], "id")) => l[j] = Seed[FindIndex(Seed, l[j]["id"])]

\* the manager held the objects of DEFAULT_MAPPINGS themselves (the catch
\* branch), one of them was edited, and the list was saved
C5_Witness ==
    /\ ~mgrOpen
    /\ \E i \in DOMAIN mgr : mgr[i].ref > 0
    /\ \E i \in DOMAIN mgr : mgr[i].ref = 0 /\ IsDefault(mgr[i].val)
    /\ WrittenBySave
    /\ DOMAIN lsDef.obj # {}

\* exactly one of the two amount representations is populated
OneAmountMode(m) ==
    LET a == Truthy(Get(m, "amountColumn"))
        w == Truthy(Get(m, "withdrawalColumn"))
        d == Truthy(Get(m, "depositColumn"))
    IN (a /\ ~w /\ ~d) \/ (~a /\ w /\ d)

\* C6: every mapping loadFieldMappings() returns has exactly one amount
\* representation populated: amountColumn without withdrawalColumn and
\* depositColumn, or withdrawalColumn and depositColumn without amountColumn.
C6_OneAmountMode == \A j \in DOMAIN LoadList : OneAmountMode(LoadList[j])

\* C7: every mapping createFieldMapping returned is not built-in, and its id
\* differs from the built-in ids and from the id of every mapping returned by
\* another call.
C7_FreshIds ==
    LET ms == Vals(mgr, seed)
    IN \A i \in DOMAIN ms :
          ~IsDefault(ms[i]) =>
             /\ ~IsBuiltinId(ms[i]["id"])
             /\ \A j \in DOMAIN ms : j # i => ms[j]["id"] # ms[i]["id"]

\* C8: getDefaultMapping() is never undefined; it is the loaded mapping with id
\* 'hdfc-default' when there is one (the seed with the stored modifications
\* applied), and the first loaded mapping otherwise.
C8_DefaultMapping ==
    LET l == LoadList
        g == getDefaultMapping(lsFM, lsDef, seed)
    IN /\ g # ("undefined" :> TRUE)
       /\ IF Count(l, "hdfc-default") > 0
          THEN /\ g = l[FindIndex(l, "hdfc-default")]
               /\ (lsFM.kind \in {"missing", "arr"} /\ lsDef.kind \in {"missing", "obj"})
                     => g = Spread(Seed[1], ModifiedFor(lsDef, "hdfc-default"))
          ELSE g = l[1]

\* after a page load FileUpload holds the modified HDFC mapping as its selection
C8_Witness ==
    /\ loaded
    /\ selectedMapping = getDefaultMapping(lsFM, lsDef, seed)
    /\ selectedMapping["id"] = "hdfc-default"
    /\ selectedMapping["bankName"] = "X"

\* a call of initializeUserMappings: App's start effect, MappingManager's
\* loadMappings on opening and on cancelling unsaved changes
InitializeCalled == PageLoad \/ OpenMappingManager \/ (MMHandleCancel /\ mmDirty)

HoldsRules(st) == st.kind = "obj" /\ Len(st.rules) > 0

\* C9: when the stored rule set holds at least one rule, a call of
\* initializeUserMappings leaves the stored rule set as it is (keys, categories
\* and key order) and writes nothing to storage.
C9_InitializeIdempotent ==
    [][(InitializeCalled /\ HoldsRules(lsUser)) => (lsUser' = lsUser /\ ~wrote')]_vars

\* the page was loaded over a stored rule set of one user rule, which is still there
C9_Witness ==
    /\ loaded
    /\ nCat = 0
    /\ ~wrote
    /\ lsUser = UserRules(<< <<"mykey", "Shopping">> >>)

\* C10 as stated: from empty storage and without a reset, the template is
\* copied into the user rule set at most once.
C10_SeededOnce == fromEmpty => seedCount <= 1

\* C10 amended: a call of initializeUserMappings copies the template exactly
\* when the stored rule set is empty at the time of the call (missing,
\* unreadable, or holding no rule), and no other operation copies it.
C10_SeededWhenEmpty ==
    [][/\ InitializeCalled =>
             IF HoldsRules(lsUser)
             THEN seedCount' = seedCount /\ lsUser' = lsUser
             ELSE seedCount' = seedCount + 1 /\ lsUser' = UserRules(SUGGESTED_MAPPINGS)
       /\ ~InitializeCalled => seedCount' = seedCount]_vars

\* from empty storage the template was copied a second time, after every rule
\* had been removed
C10_Witness ==
    /\ fromEmpty
    /\ seedCount = 2
    /\ lsUser = UserRules(SUGGESTED_MAPPINGS)

\* the <<keyword, category>> pairs of a rule set
Pairs(rules) == {rules[i] : i \in DOMAIN rules}

\* the stored rule set as loadUserMappings reads it
StoredRules(st) == loadUserMappings(st).rules

\* the step is addOrUpdateMapping(k, c), deleteMapping(k) or saveUserMappings(m),
\* and the stored rule set afterwards is the one before with that edit applied
EditApplied ==
    \/ /\ AddOrUpdateMapping
       /\ \E k \in KeywordInputs, c \in CategoryInputs :
             LET key == Trim(ToLowerCase(k))
                 kept == {r \in Pairs(StoredRules(lsUser)) : r[1] # key}
             IN /\ Pairs(StoredRules(lsUser')) = kept \cup {<<key, Trim(c)>>}
                /\ Len(StoredRules(lsUser')) = Cardinality(kept) + 1
    \/ /\ DeleteMapping
       /\ \E k \in KeywordInputs :
             LET key == Trim(ToLowerCase(k))
                 kept == {r \in Pairs(StoredRules(lsUser)) : r[1] # key}
             IN /\ Pairs(StoredRules(lsUser')) = kept
                /\ Len(StoredRules(lsUser')) = Cardinality(kept)
    \/ /\ SaveUserMappings
       /\ \E m \in RuleSetInputs : StoredRules(lsUser') = m

EditCalled == AddOrUpdateMapping \/ DeleteMapping \/ SaveUserMappings

\* C11 as stated: after every edit of the initialized rule set,
\* getActiveMappings() returns exactly the edited rule set.
C11_ActiveIsEdited ==
    [][EditCalled =>
          /\ EditApplied
          /\ Pairs(getActiveMappings(lsUser').rules) = Pairs(StoredRules(lsUser'))]_vars

\* C11 amended: after every edit of the initialized rule set,
\* getActiveMappings() returns exactly the edited rule set when it holds at
\* least one rule, and the whole suggested template when the edits left it empty.
C11_ActiveIsEditedUnlessEmpty ==
    [][EditCalled =>
          /\ EditApplied
          /\ Pairs(getActiveMappings(lsUser').rules) =
                IF StoredRules(lsUser') = <<>>
                THEN Pairs(SUGGESTED_MAPPINGS)
                ELSE Pairs(StoredRules(lsUser'))]_vars

\* the seeded set was edited: 'zomato' was given the user's category, 'swiggy'
\* is still there and the user's own keyword was added; the active set is that set
C11_Witness ==
    /\ seedCount = 1
    /\ lsUser.kind = "obj"
    /\ <<"zomato", "Shopping">> \in Pairs(lsUser.rules)
    /\ <<"mykey", "Shopping">> \in Pairs(lsUser.rules)
    /\ Len(lsUser.rules) = Len(SUGGESTED_MAPPINGS) + 1
    /\ getActiveMappings(lsUser).rules = lsUser.rules

\* C12: after resetAllMappings(), whatever rule set was stored before, no user
\* rule is stored any more and the next getActiveMappings() returns a rule set
\* equal to SUGGESTED_MAPPINGS, key for key and category for category.
C12_ResetRevertsToSuggested ==
    [][ResetAllMappings =>
          /\ StoredRules(lsUser') = <<>>
          /\ lsUser'.kind = "missing"
          /\ getActiveMappings(lsUser').rules = SUGGESTED_MAPPINGS
          /\ getActiveMappings(lsUser').store = lsUser']_vars

\* the seeded and then edited rule set was reset
C12_Witness ==
    /\ lsUser = UserMissing
    /\ wrote /\ notified
    /\ seedCount = 1
    /\ nCat = 2
    /\ ~fromEmpty
    /\ getActiveMappings(lsUser).rules = SUGGESTED_MAPPINGS

\* an operation of the rule store that writes the stored rule set
MutationCalled ==
    AddOrUpdateMapping \/ DeleteMapping \/ SaveUserMappings \/ ResetAllMappings
        \/ MMHandleSave

\* C13: addOrUpdateMapping, deleteMapping, saveUserMappings, resetAllMappings
\* and a seeding initializeUserMappings have dispatched 'categoryMappingsUpdated'
\* when they return, and no step changes the stored rule set without
\* dispatching it.
C13_MutationNotifies ==
    [][/\ MutationCalled => notified'
       /\ seedCount' # seedCount => notified'
       /\ StoredRules(lsUser') # StoredRules(lsUser) => notified']_vars

\* the start of the App seeded the empty store and the event was dispatched
C13_Witness ==
    /\ loaded
    /\ nCat = 0
    /\ seedCount = 1
    /\ lsUser = UserRules(SUGGESTED_MAPPINGS)
    /\ notified

\* the rule set after rules[key] = c when the keys are kept in insertion order:
\* an existing keyword keeps its place, a new keyword is last
InInsertionOrder(rules, key, c) ==
    IF HasKey(rules, key)
    THEN [i \in DOMAIN rules |-> IF rules[i][1] = key THEN <<key, c>> ELSE rules[i]]
    ELSE Append(rules, <<key, c>>)

\* the positions of the keywords of R that are substrings of lowercase(d)
Matching(R, d) == {i \in DOMAIN R : Includes(ToLowerCase(d), R[i][1])}

\* C14: after addOrUpdateMapping(k, c) on a stored rule set, for every
\* description d that contains a keyword of the resulting set R,
\* categorizeTransaction(d) returns the category of the matching keyword that
\* comes first in insertion order, where an updated keyword keeps its place and
\* a newly added keyword is last.
C14_FirstMatchInInsertionOrder ==
    [][\A k \in KeywordInputs, c \in CategoryInputs :
          (AddOrUpdateMapping /\ lsUser' = addOrUpdateMapping(lsUser, k, c).store) =>
             LET R == InInsertionOrder(StoredRules(lsUser), Trim(ToLowerCase(k)), Trim(c))
             IN \A d \in DescriptionInputs :
                   Matching(R, d) # {} =>
                      categorizeTransaction(lsUser', d).category
                         = R[First(Matching(R, d))][2]]_vars

\* the upper-case form of a description
UpperOf ==
    [a |-> "A", b |-> "B", c |-> "C", d |-> "D", e |-> "E", f |-> "F", g |->
     "G", h |-> "H", i |-> "I", j |-> "J", k |-> "K", l |-> "L", m |-> "M",
     n |-> "N", o |-> "O", p |-> "P", q |-> "Q", r |-> "R", s |-> "S", t |->
     "T", u |-> "U", v |-> "V", w |-> "W", x |-> "X", y |-> "Y", z |-> "Z"]

UpperChar(c) == IF c \in DOMAIN UpperOf THEN UpperOf[c] ELSE c

RECURSIVE ToUpperCase(_)
ToUpperCase(s) ==
    IF Len(s) = 0 THEN ""
    ELSE UpperChar(SubSeq(s, 1, 1)) \o ToUpperCase(SubSeq(s, 2, Len(s)))

\* the rule set a categorizeTransaction call works with
ActiveRules == getActiveMappings(lsUser).rules

HasWord(d, words) == \E i \in DOMAIN words : Includes(ToLowerCase(d), words[i])

\* the description contains no keyword of the active rule set
NoKeyword(d) == Matching(ActiveRules, d) = {}

\* the credit-style test
CreditStyle(d) ==
    HasWord(d, <<"salary", "sal", "wage", "pay", "deposit", "credit", "credited",
                 "interest", "dividend", "bonus", "transfer in", "received",
                 "incoming", "refund", "cashback", "reward">>)

\* the seven fallback patterns, in the order they are tried
FallbackCategory(d) ==
    IF HasWord(d, <<"food", "restaurant", "cafe", "dining", "meal">>)
    THEN "Food & Dining"
    ELSE IF HasWord(d, <<"shop", "store", "mall", "purchase", "buy">>)
    THEN "Shopping"
    ELSE IF HasWord(d, <<"fuel", "petrol", "gas", "transport", "taxi", "uber", "ola">>)
    THEN "Transportation"
    ELSE IF HasWord(d, <<"medical", "health", "doctor", "pharmacy", "hospital">>)
    THEN "Healthcare"
    ELSE IF HasWord(d, <<"bill", "utility", "electric", "water", "internet", "mobile">>)
    THEN "Bills & Utilities"
    ELSE IF HasWord(d, <<"entertainment", "movie", "game", "music", "netflix">>)
    THEN "Entertainment"
    ELSE IF HasWord(d, <<"grocery", "vegetables", "fruits", "supermarket">>)
    THEN "Groceries"
    ELSE "none"

\* C16 as stated: a description with no rule keyword that matches
\* fuel|petrol|gas|transport gives 'Transportation', and the result is
\* 'Miscellaneous' exactly when the description has no rule keyword, fails the
\* credit heuristics and matches none of the seven patterns.
C16_FallbackOrder ==
    [][CategorizeTransaction =>
          LET d == lastDesc'
          IN /\ (NoKeyword(d) /\ HasWord(d, <<"fuel", "petrol", "gas", "transport">>))
                   => lastCat' = "Transportation"
             /\ lastCat' = "Miscellaneous"
                   <=> (NoKeyword(d) /\ ~CreditStyle(d) /\ FallbackCategory(d) = "none")]_vars

\* C16 amended: a description with no rule keyword that fails the credit
\* heuristics gets the category of the first of the seven patterns it matches,
\* tried in the order Food & Dining, Shopping, Transportation, Healthcare,
\* Bills & Utilities, Entertainment, Groceries (so fuel|petrol|gas|transport
\* gives 'Transportation' unless the food or the shop pattern matches too), and
\* 'Miscellaneous' exactly when it matches none of them.
C16_FallbackAfterCredit ==
    [][CategorizeTransaction =>
          LET d == lastDesc'
          IN (NoKeyword(d) /\ ~CreditStyle(d)) =>
                /\ FallbackCategory(d) # "none" => lastCat' = FallbackCategory(d)
                /\ lastCat' = "Miscellaneous" <=> FallbackCategory(d) = "none"]_vars

\* a description with no rule keyword and no credit word matched the third pattern
C16_Witness ==
    /\ lastDesc = "Gas Station"
    /\ lastCat = "Transportation"
    /\ lsUser = UserRules(<< <<"mykey", "Miscellaneous">> >>)

\* the first credit family of a description, in the order the families are tried
CreditFamily(d) ==
    IF HasWord(d, <<"salary", "sal", "wage", "payroll", "monthly pay">>) THEN "Salary"
    ELSE IF HasWord(d, <<"bonus", "incentive", "commission", "reward">>) THEN "Bonus"
    ELSE IF HasWord(d, <<"dividend", "interest", "investment", "mutual fund", "sip">>)
    THEN "Investment Returns"
    ELSE IF HasWord(d, <<"refund", "return", "reversal", "chargeback">>) THEN "Refunds"
    ELSE IF HasWord(d, <<"cashback", "cash back", "reward", "points">>) THEN "Cashback"
    ELSE "Credits"

CreditCategories ==
    {"Salary", "Bonus", "Investment Returns", "Refunds", "Cashback", "Credits"}

FallbackCategories ==
    {"Food & Dining", "Shopping", "Transportation", "Healthcare",
     "Bills & Utilities", "Entertainment", "Groceries"}

\* C17: a description with no rule keyword that passes the credit-style test
\* gets the first matching family in the order Salary, Bonus, Investment
\* Returns, Refunds, Cashback, and 'Credits' when no family matches, never a
\* fallback category or 'Miscellaneous'; one that fails the test never gets one
\* of those six categories.
C17_CreditHeuristics ==
    [][CategorizeTransaction =>
          LET d == lastDesc'
          IN /\ (NoKeyword(d) /\ CreditStyle(d)) =>
                   /\ lastCat' = CreditFamily(d)
                   /\ lastCat' \notin FallbackCategories \cup {"Miscellaneous"}
             /\ (NoKeyword(d) /\ ~CreditStyle(d)) => lastCat' \notin CreditCategories]_vars

\* 'reward' is a word of the bonus and of the cashback family: the earlier one won
C17_Witness ==
    /\ lastDesc = "reward points"
    /\ lastCat = "Bonus"
    /\ lsUser = UserRules(<< <<"mykey", "Miscellaneous">> >>)

\* C18: a second categorizeTransaction call with the same description, with no
\* rule-set mutation in between, returns the category the first call returned.
C18_Deterministic ==
    [][CategorizeTransaction =>
          categorizeTransaction(lsUser', lastDesc').category = lastCat']_vars

\* the first call read an unparseable entry (and removed it)
C18_Witness ==
    /\ lastDesc = "ZOMATO ORDER #123"
    /\ lastCat = "Food & Dining"
    /\ lsUser = UserMissing
    /\ wrote /\ ~notified

\* C19: a categorizeTransaction call leaves the stored user-rule entry as it
\* was, whether missing, valid or unparseable, and dispatches no
\* 'categoryMappingsUpdated'.
C19_NoSideEffects ==
    [][CategorizeTransaction => (lsUser' = lsUser /\ ~wrote' /\ ~notified')]_vars

\* C20: every transaction of the App's collection has an amount that is a
\* number not below zero, and a type that is debit or credit.
C20_AmountNonNegative ==
    \A i \in DOMAIN transactions :
       /\ transactions[i].amount.t = "number"
       /\ transactions[i].amount.v >= 0
       /\ transactions[i].type \in {"debit", "credit"}

\* C21: no two transactions of the App's collection share an id, whatever
\* handlers ran and whatever the clock returned (two readings may fall in the
\* same millisecond).
C21_UniqueIds ==
    \A i, j \in DOMAIN transactions :
       i # j => transactions[i].id # transactions[j].id

\* C22: after handleDeleteTransaction and the save effect that follows it, the
\* list a reload reads from storage holds no transaction that the collection
\* no longer holds, also when the deleted transaction was the last one.
C22_DeletionDurable ==
    [][HandleDeleteTransaction =>
          \A k \in DOMAIN loadTransactions(lsTx') :
             \E i \in DOMAIN transactions' :
                transactions'[i].id = loadTransactions(lsTx')[k].id]_vars

\* a parse result that holds a row-level failure
HasFailedRow(r) == r.ok /\ \E k \in DOMAIN r.parsedData : ~r.parsedData[k].success

\* C23: whenever the parser returns a result in which a data row failed, also
\* one in which every data row failed, processFile puts the parsed rows, the
\* failed ones among them, into the results table and shows the table.
C23_FailedRowsReachTable ==
    [][ProcessFile /\ HasFailedRow(result')
          => showParseResults' /\ parsedData' = result'.parsedData]_vars

\* the non-empty data rows after the header row of the parsed file
C24_DataRows ==
    LET h == FindHeaderRow(file.rows, Get(parserMapping, "starterWord"))
    IN DataRows(file.rows, h)

\* C24: when the header row and the required columns of a file resolve, the
\* parser returns one parsedData entry per non-empty data row after the header,
\* in order and whatever rows failed before it; transactions holds one
\* Transaction per entry with success = TRUE, in order, and none for a failed
\* entry; an entry has an error exactly when success = FALSE.
C24_PerRowFaultTolerance ==
    result.ok =>
        LET done == Successes(result.parsedData)
        IN /\ Len(result.parsedData) = Len(C24_DataRows)
           /\ \A k \in DOMAIN result.parsedData :
                 /\ result.parsedData[k].originalRow = C24_DataRows[k]
                 /\ (result.parsedData[k].error # Undefined)
                        <=> ~result.parsedData[k].success
           /\ Len(result.transactions) = Len(done)
           /\ \A n \in DOMAIN result.transactions :
                 /\ result.transactions[n].description
                        = result.parsedData[done[n]].description
                 /\ result.transactions[n].date = result.parsedData[done[n]].date
                 /\ result.transactions[n].amount = result.parsedData[done[n]].amount
                 /\ result.transactions[n].type = result.parsedData[done[n]].type

\* ten data rows of which the fifth has an unreadable date: ten entries, one
\* failure, nine transactions
C24_Witness ==
    /\ result.ok
    /\ Len(result.parsedData) = 10
    /\ {k \in DOMAIN result.parsedData : ~result.parsedData[k].success} = {5}
    /\ Len(result.transactions) = 9

\* the parsed file was read in amount-column mode with no type column
C25_SignMode ==
    /\ result.ok
    /\ AmountColumnMode(Locate(file.rows, parserMapping))
    /\ Locate(file.rows, parserMapping).col["typeColumn"] = 0

\* the number in the amount cell of a data row
C25_Value(row) ==
    parseFloat(Cell(row, Locate(file.rows, parserMapping).col["amountColumn"]))

\* the row has a readable date and a description, so that its amount is read
C25_ReachesAmount(row) ==
    LET loc == Locate(file.rows, parserMapping)
    IN /\ parseDate(Trim(Cell(row, loc.col["dateColumn"]))) # ""
       /\ Trim(Cell(row, loc.col["descriptionColumn"])) # ""

C26_WdMode ==
    /\ result.ok
    /\ ~AmountColumnMode(Locate(file.rows, parserMapping))

\* the withdrawal and the deposit cell of a data row
C26_Withdrawal(row) ==
    Cell(row, Locate(file.rows, parserMapping).col["withdrawalColumn"])
C26_Deposit(row) ==
    Cell(row, Locate(file.rows, parserMapping).col["depositColumn"])

\* what the claim says of an entry: with exactly one cell non-empty and
\* non-zero the row succeeded as a debit of the withdrawal value or a credit of
\* the deposit value; with both or neither it failed with an error
C26_EntryFollowsCells(e) ==
    LET w == C26_Withdrawal(e.originalRow)
        d == C26_Deposit(e.originalRow)
        wp == Trim(w) # "" /\ parseFloat(w) # Num(0)
        dp == Trim(d) # "" /\ parseFloat(d) # Num(0)
    IN /\ wp /\ ~dp => e.success /\ e.type = "debit" /\ e.amount = parseFloat(w)
       /\ dp /\ ~wp => e.success /\ e.type = "credit" /\ e.amount = parseFloat(d)
       /\ (wp <=> dp) => ~e.success /\ e.error # Undefined

\* the rows strictly after the header row of the parsed file
C26_RowsAfterHeader ==
    LET h == Locate(file.rows, parserMapping).headerRow
    IN SubSeq(file.rows, h + 1, Len(file.rows))

\* C26 as stated: in withdrawal/deposit mode every row after the header has
\* an entry; the entry succeeded with the type and amount of the one populated
\* cell when exactly one cell is populated, and is marked failed with an error
\* when both or neither are; a failed entry produces no Transaction.
C26_EveryRowFollowsCells ==
    C26_WdMode =>
        /\ Len(result.parsedData) = Len(C26_RowsAfterHeader)
        /\ \A k \in DOMAIN result.parsedData :
              C26_EntryFollowsCells(result.parsedData[k])
        /\ Len(result.transactions) = Len(Successes(result.parsedData))

\* C26, amended: in withdrawal/deposit mode every non-empty row after the
\* header has an entry; when the row's date is readable and its description
\* is not empty, the entry succeeded with the type and amount of the one
\* populated cell when exactly one cell is populated, and is marked failed
\* with an error when both or neither are; a failed entry produces no
\* Transaction.
C26_ValidRowFollowsCells ==
    C26_WdMode =>
        /\ Len(result.parsedData) = Len(C24_DataRows)
        /\ \A k \in DOMAIN result.parsedData :
              C25_ReachesAmount(result.parsedData[k].originalRow)
                  => C26_EntryFollowsCells(result.parsedData[k])
        /\ Len(result.transactions) = Len(Successes(result.parsedData))

\* a withdrawal row that became a debit of 500, followed by a row with both
\* cells populated that failed
C26_Witness ==
    /\ C26_WdMode
    /\ Len(result.parsedData) = 2
    /\ result.parsedData[1].success
    /\ result.parsedData[1].type = "debit"
    /\ result.parsedData[1].amount = Num(500)
    /\ C26_Deposit(result.parsedData[2].originalRow) = "70"
    /\ C26_Withdrawal(result.parsedData[2].originalRow) = "500"
    /\ ~result.parsedData[2].success
    /\ Len(result.transactions) = 1

\* C27: the mapping processFile hands to the parser is the selected mapping as
\* the stored field mappings define it at that moment (the built-in default if
\* it is no longer stored), also after FieldMappingManager.handleSave wrote
\* edited mappings in the same window.
C27_ParsesWithSavedMapping ==
    [][ProcessFile =>
          parserMapping'
              = ReloadSelected(lsFM, lsDef, seed, Get(selectedMapping, "id"))]_vars

\* the positions of list at which a transaction with the key of t stands
C28_WithKeyOf(list, t) ==
    {i \in DOMAIN list : TransactionKey(list[i]) = TransactionKey(t)}

\* C28: when processFile imports a file, a credit row whose description passes
\* isSalaryTransaction, that stands once in the file and was not in the
\* collection before, stands exactly once in the collection afterwards.
C28_SalaryRowImportedOnce ==
    [][ProcessFile /\ error' = Null =>
          \A n \in DOMAIN result'.transactions :
             LET t == result'.transactions[n]
             IN /\ t.type = "credit"
                /\ FileUploadIsSalaryTransaction(t.description)
                /\ Cardinality(C28_WithKeyOf(result'.transactions, t)) = 1
                /\ C28_WithKeyOf(transactions, t) = {}
                => Cardinality(C28_WithKeyOf(transactions', t)) = 1]_vars

\* C29: importing once more the file that was imported last leaves the App's
\* collection as it is.
C29_ReimportAddsNothing ==
    [][ProcessFile /\ file' = file /\ error' = Null
          => transactions' = transactions]_vars

\* the stored entry is one saveGoogleCredentials wrote more than 24 hours
\* before t
C30_Expired(st, t) == st.kind = "obj" /\ t - st.timestamp > oneDayInMs

\* C30: getGoogleCredentials returns credentials only from an entry saved no
\* more than 24 hours before the call; reading an expired entry removes it from
\* storage and returns null; initializeGoogleSheetsAPI returns false and leaves
\* the API client as it was whenever the entry is missing or expired.
C30_CredentialsExpire ==
    [][/\ GetGoogleCredentials =>
             /\ ~lastCred'.null =>
                    /\ lsCred.kind = "obj"
                    /\ now' - lsCred.timestamp <= oneDayInMs
                    /\ lastCred' = Credentials(lsCred.clientId, lsCred.apiKey)
             /\ C30_Expired(lsCred, now') =>
                    lastCred'.null /\ lsCred' = CredMissing
       /\ InitializeGoogleSheetsAPI
              /\ (lsCred.kind = "missing" \/ C30_Expired(lsCred, now')) =>
             /\ lastInit' = "false"
             /\ tokenClient' = tokenClient
             /\ lsCred' = CredMissing]_vars

\* credentials were saved and the API client initialised with them; more than
\* 24 hours later the entry is gone from storage and initializeGoogleSheetsAPI
\* returned false
C30_Witness ==
    /\ tokenClient
    /\ lsCred = CredMissing
    /\ lastInit = "false"
    /\ now > oneDayInMs

====
